---------------------------- MODULE Spec2Model ----------------------------
(***************************************************************************)
(* MurmurStack: per-connection audio buffering and flush decision.         *)
(*                                                                         *)
(* Audio is modelled exactly up to run-length encoding: a tensor is a      *)
(* sequence of runs <<n, a>>, n samples whose absolute value is a/1000.    *)
(* Sample counts, the 16000 Hz rate and the thresholds are the program's.  *)
(* Durations are kept as sample counts (seconds * sample_rate), so that    *)
(* every comparison of the code is an exact integer comparison.            *)
(***************************************************************************)
EXTENDS Integers, Sequences, FiniteSets, TLC

(***************************************************************************)
(* Program constants                                                       *)
(***************************************************************************)
\* self.sample_rate (backend) / SAMPLE_RATE (murmur-server), in Hz
sample_rate == 16000
\* BUFFER_MAX_SECONDS = 5.0, in tenths of a second
BUFFER_MAX_SECONDS == 50
\* BUFFER_MIN_SECONDS = 1.5, in tenths of a second
BUFFER_MIN_SECONDS == 15
\* self.silence_threshold = 0.01, in thousandths of full scale
silence_threshold == 10
\* the 0.2 of int(0.2 * self.sample_rate), in tenths of a second
SILENCE_WINDOW == 2
\* if audio_np.size < 100: skip
MIN_CHUNK_SAMPLES == 100
\* np.float32: four bytes per sample
FLOAT32_BYTES == 4

(***************************************************************************)
(* Bounds of the model                                                     *)
(***************************************************************************)
\* number of websocket connections ever opened
MaxConn == 2
\* number of messages received in all, after which connections only close
MaxRecv == 2
\* largest number of words in one transcription
MaxWords == 2
\* longest prior buffer of the flush-decision harness
MaxPrior == 2

(***************************************************************************)
(* Tensors                                                                 *)
(***************************************************************************)
Min(a, b) == IF a <= b THEN a ELSE b

\* torch.zeros(0)
EmptyTensor == << >>

\* tensor.numel()
RECURSIVE numel(_)
numel(t) == IF t = << >> THEN 0 ELSE t[1][1] + numel(Tail(t))

\* sum of squared samples (in 1e-6 units) of the last k samples of t
RECURSIVE TailSquares(_, _)
TailSquares(t, k) ==
    IF k <= 0 \/ t = << >> THEN 0
    ELSE LET last == t[Len(t)]
             take == Min(k, last[1])
         IN  take * last[2] * last[2]
               + TailSquares(SubSeq(t, 1, Len(t) - 1), k - take)

\* variant: the tensors concatenated last first
RECURSIVE cat_reversed(_)
cat_reversed(buff) ==
    IF buff = << >> THEN << >> ELSE cat_reversed(Tail(buff)) \o buff[1]

\* torch.cat(list of tensors)
RECURSIVE cat(_)
cat(buff) == IF buff = << >> THEN << >> ELSE buff[1] \o cat(Tail(buff))

\* sum(tensor.numel() for tensor in buff)
RECURSIVE SumNumel(_)
SumNumel(buff) == IF buff = << >> THEN 0 ELSE numel(buff[1]) + SumNumel(Tail(buff))

\* torch.sqrt(torch.mean(segment**2)) < threshold, segment = the last k
\* samples of t, k > 0:  sqrt(S / k) < thr  <=>  S < thr^2 * k
RmsBelow(t, k, thr) == TailSquares(t, k) < thr * thr * k

\* int(0.2 * sample_rate)
WindowSamples(rate) == (SILENCE_WINDOW * rate) \div 10

(***************************************************************************)
(* Fragments used as inputs                                                *)
(***************************************************************************)
Tone1s      == << <<16000, 500>> >>
Silence1s   == << <<16000, 0>> >>
Tone3s      == << <<48000, 500>> >>
Tone15      == << <<24000, 500>> >>
Silence15   == << <<24000, 0>> >>
Silence05   == << <<8000, 0>> >>
ToneQuietTail == << <<12800, 500>>, <<3200, 0>> >>
QuietToneTail == << <<15999, 0>>, <<1, 500>> >>
Hum9        == << <<16000, 9>> >>
Hum10       == << <<16000, 10>> >>
ShortSilent == << <<1600, 0>> >>
ShortTone   == << <<1600, 500>> >>
Tiny        == << <<99, 500>> >>
Least       == << <<100, 0>> >>


(***************************************************************************)
(* State                                                                   *)
(***************************************************************************)
VARIABLES
    \* ConnectionManager (backend/src/server.py)
    active_connections,  \* client id -> websocket
    audio_buffers,       \* client id -> list of tensors
    buffer_sizes,        \* client id -> total samples in the buffer
    audio_metrics,       \* client id -> metrics record (durations in samples)
    now,                 \* datetime.now(): a logical clock
    \* one websocket_endpoint coroutine per connection
    pc,                  \* where the coroutine is suspended
    client_of,           \* the client_id path parameter of the connection
    gen,                 \* the transcriber's async generator, while iterated
    nrecv,               \* messages received so far, on all connections
    \* history of the process_audio_chunk call a coroutine is suspended in
    call,
    \* history: the process_audio_chunk call the preceding step started, if
    \* that step was one, as far as it ran in that step
    latest,
    \* history: samples appended for a client id since its metrics were created
    accepted_samples,
    \* the flush-decision harness: inputs and the two decisions
    hin, hout,
    \* murmur-server (murmur-server/server.py): one connection handled by root
    root_pc,             \* where the coroutine root() is
    ws,                  \* the WebSocket: its state and the close code sent
    user_id,             \* the result of the API-key lookup
    root_buff,           \* the local list of tensors, buff
    usage,               \* redis: user key -> usage recorded (in samples)
    \* demo-server (demo-server/server.py)
    demo_metrics,        \* the keys of the defaultdict metrics
    SessionMetric,       \* the class attributes murmur and control
    buffs,               \* client id -> len of the bytes buffered
    clock,               \* the demo-server's clock, in readings taken
    \* one upgrade_murmur or upgrade_control coroutine per connection
    demo_pc,             \* where the coroutine is
    demo_path,           \* "murmur" or "control"
    demo_client,         \* the client_id path parameter
    client_ws,           \* the client's side of the websocket ws
    murmur_ws,           \* the upstream connection murmur_ws
    handle_audio,        \* the task handle_audio()
    handle_transcript,   \* the task handle_transcript()
    transcript,          \* the message handle_transcript is forwarding
    sent                 \* the kinds of message delivered to the client

managerVars == <<active_connections, audio_buffers, buffer_sizes, audio_metrics, now>>
handlerVars == <<pc, client_of, gen, nrecv, call, latest, accepted_samples>>
harnessVars == <<hin, hout>>
murmurVars == <<root_pc, ws, user_id, root_buff, usage>>
\* the state of the other servers of the repository, which are processes of
\* their own
demoVars == <<demo_metrics, SessionMetric, buffs, clock, demo_pc, demo_path,
              demo_client, client_ws, murmur_ws, handle_audio,
              handle_transcript, transcript, sent>>
otherVars == <<murmurVars, demoVars>>
vars == <<managerVars, handlerVars, harnessVars, otherVars>>

ClientIds == {"a", "b"}
Sockets == 1..MaxConn
\* no websocket: send_message finds no connection for the client id
NoSocket == 0
NoClient == "-"

(***************************************************************************)
(* Buffer store: get_buffer_duration, add_to_buffer, get_buffer_content    *)
(***************************************************************************)
\* get_buffer_duration(client_id) * sample_rate
get_buffer_duration(sizes, c) ==
    IF c \in DOMAIN sizes THEN sizes[c] ELSE 0

\* duration (in samples) >= seconds (in tenths)
AtLeast(samples, tenths) == samples * 10 >= tenths * sample_rate

\* variant: the size counts tensors instead of samples
add_to_buffer_count(bufs, sizes, c, t) ==
    LET b0 == IF c \notin DOMAIN bufs THEN (c :> << >>) @@ bufs ELSE bufs
        s0 == IF c \notin DOMAIN bufs THEN (c :> 0) @@ sizes ELSE sizes
    IN  [audio_buffers |-> [b0 EXCEPT ![c] = Append(@, t)],
         buffer_sizes  |-> [s0 EXCEPT ![c] = @ + 1]]

\* add_to_buffer(client_id, audio_tensor): the two dictionaries afterwards
add_to_buffer(bufs, sizes, c, t) ==
    LET b0 == IF c \notin DOMAIN bufs THEN (c :> << >>) @@ bufs ELSE bufs
        s0 == IF c \notin DOMAIN bufs THEN (c :> 0) @@ sizes ELSE sizes
    IN  [audio_buffers |-> [b0 EXCEPT ![c] = Append(@, t)],
         buffer_sizes  |-> [s0 EXCEPT ![c] = @ + numel(t)]]

\* variant: a missing client gets an entry, as a defaultdict would give it
get_buffer_content_default(bufs, sizes, c) ==
    IF c \notin DOMAIN bufs \/ bufs[c] = << >>
    THEN [result |-> EmptyTensor,
          audio_buffers |-> (c :> << >>) @@ bufs,
          buffer_sizes |-> (c :> 0) @@ sizes]
    ELSE [result |-> cat(bufs[c]),
          audio_buffers |-> [bufs EXCEPT ![c] = << >>],
          buffer_sizes  |-> (c :> 0) @@ sizes]

\* variant: the buffer is returned but not cleared
get_buffer_content_keep(bufs, sizes, c) ==
    IF c \notin DOMAIN bufs \/ bufs[c] = << >>
    THEN [result |-> EmptyTensor, audio_buffers |-> bufs, buffer_sizes |-> sizes]
    ELSE [result |-> cat(bufs[c]), audio_buffers |-> bufs, buffer_sizes |-> sizes]

\* get_buffer_content(client_id): the result and the two dictionaries afterwards
get_buffer_content(bufs, sizes, c) ==
    IF c \notin DOMAIN bufs \/ bufs[c] = << >>
    THEN [result |-> EmptyTensor, audio_buffers |-> bufs, buffer_sizes |-> sizes]
    ELSE [result |-> cat(bufs[c]),
          audio_buffers |-> [bufs EXCEPT ![c] = << >>],
          buffer_sizes  |-> (c :> 0) @@ sizes]

(***************************************************************************)
(* Flush decision                                                          *)
(***************************************************************************)
\* variant: the cap compared with > instead of >=
should_process_buffer_gt(sizes, c, t) ==
    LET buffer_duration == get_buffer_duration(sizes, c)
        samples_to_check == Min(WindowSamples(sample_rate), numel(t))
    IN  IF buffer_duration * 10 > BUFFER_MAX_SECONDS * sample_rate THEN TRUE
        ELSE IF AtLeast(buffer_duration, BUFFER_MIN_SECONDS)
             THEN samples_to_check > 0
                  /\ RmsBelow(t, samples_to_check, silence_threshold)
             ELSE FALSE

\* variant: the minimum compared with > instead of >=
should_process_buffer_min(sizes, c, t) ==
    LET buffer_duration == get_buffer_duration(sizes, c)
        samples_to_check == Min(WindowSamples(sample_rate), numel(t))
    IN  IF AtLeast(buffer_duration, BUFFER_MAX_SECONDS) THEN TRUE
        ELSE IF buffer_duration * 10 > BUFFER_MIN_SECONDS * sample_rate
             THEN samples_to_check > 0
                  /\ RmsBelow(t, samples_to_check, silence_threshold)
             ELSE FALSE

\* variant: no maximum, only the silence rule
should_process_buffer_nocap(sizes, c, t) ==
    LET buffer_duration == get_buffer_duration(sizes, c)
        samples_to_check == Min(WindowSamples(sample_rate), numel(t))
    IN  IF AtLeast(buffer_duration, BUFFER_MIN_SECONDS)
        THEN samples_to_check > 0
             /\ RmsBelow(t, samples_to_check, silence_threshold)
        ELSE FALSE

\* ConnectionManager.should_process_buffer(client_id, audio_tensor)
should_process_buffer(sizes, c, t) ==
    LET buffer_duration == get_buffer_duration(sizes, c)
        samples_to_check == Min(WindowSamples(sample_rate), numel(t))
    IN  IF AtLeast(buffer_duration, BUFFER_MAX_SECONDS) THEN TRUE
        ELSE IF AtLeast(buffer_duration, BUFFER_MIN_SECONDS)
             THEN samples_to_check > 0
                  /\ RmsBelow(t, samples_to_check, silence_threshold)
             ELSE FALSE

\* murmur-server env.py (not in the source tree): values of the specification
SAMPLE_RATE == 16000
BUFFER_MAX_S == 50
BUFFER_MIN_S == 15
SILENCE_THRESHOLD_RMS == 10

\* murmur-server get_buffer_duration_s(buff) * SAMPLE_RATE
get_buffer_duration_s(buff) == SumNumel(buff)

\* murmur-server should_flush(buff); buff is not empty.  With an empty last
\* tensor the slice [-0:] is the whole (empty) tensor, its mean is NaN and
\* NaN < threshold is False.
should_flush(buff) ==
    LET duration == get_buffer_duration_s(buff)
        last == buff[Len(buff)]
        sample_size == Min(WindowSamples(SAMPLE_RATE), numel(last))
    IN  IF duration * 10 >= BUFFER_MAX_S * SAMPLE_RATE THEN TRUE
        ELSE IF duration * 10 >= BUFFER_MIN_S * SAMPLE_RATE
             THEN IF sample_size = 0 THEN FALSE
                  ELSE RmsBelow(last, sample_size, SILENCE_THRESHOLD_RMS)
             ELSE FALSE


(***************************************************************************)
(* Transcription: OpenAITranscriber.transcribe_audio_tensor                *)
(***************************************************************************)
\* chunk_size = 1  (words per chunk)
chunk_size == 1

\* the words of the transcription text, transcription.split()
AllWords == <<"alpha", "beta", "gamma", "delta">>
Words(k) == SubSeq(AllWords, 1, k)

\* the chunk yielded for the i-th word (i = 1 .. len(words))
TranscriptionChunk(words, i) ==
    [status |-> "success",
     text |-> words[i],
     is_final |-> (i - 1) + chunk_size >= Len(words)]

\* the chunk yielded for a failure
ErrorChunk(m) == [status |-> "error", message |-> m]

\* what the API call of the generator does: a response of k >= 0 words, or
\* an exception (a negative outcome)
TranscriberOutcomes == (0 - 1)..MaxWords

\* the generator resumed after it has yielded i chunks of words: the chunk
\* it yields next, or nothing when the loop over the words is over
transcribe_next(words, i) ==
    IF i * chunk_size < Len(words)
    THEN <<TranscriptionChunk(words, i * chunk_size + 1)>>
    ELSE << >>

\* the generator started on a tensor of d samples, the API call doing tr
transcribe_first(d, tr) ==
    IF d = 0 THEN <<ErrorChunk("Empty audio tensor")>>
    ELSE IF tr < 0 THEN <<ErrorChunk("transcribe")>>
    ELSE transcribe_next(Words(tr), 0)

(***************************************************************************)
(* Collaborators of the backend (vad_processor.py, noise_processor.py)     *)
(***************************************************************************)
\* sizes the VAD may return for n samples: sub-ranges of its input
VadResults(n) == {0, n \div 2}
\* sizes noise reduction may return for m samples
NoiseResults(m) == {0, m}

(***************************************************************************)
(* Messages and inputs                                                     *)
(***************************************************************************)
NoVoiceMsg == [status |-> "no_voice_detected"]
ErrorMsg(m) == [status |-> "error", message |-> m]
SuccessMsg(chunk) ==
    [status |-> "success", transcription |-> chunk.text, is_final |-> chunk.is_final]

\* a binary websocket message: nbytes bytes, the float32 samples they hold
Frame(t, extra) == [nbytes |-> FLOAT32_BYTES * numel(t) + extra, pcm |-> t]

\* np.frombuffer(audio_data, dtype=np.float32) raises ValueError unless the
\* length is a multiple of the element size
frombuffer_ok(data) == data.nbytes % FLOAT32_BYTES = 0
frombuffer(data) == data.pcm

Frames ==
    { Frame(t, 0) : t \in {Tone3s, Tone1s, Silence15, Tiny} }
      \cup { Frame(Tiny, 3) }

NoFrame == [nbytes |-> 0, pcm |-> << >>]

EmptyDict == [k \in {} |-> 0]

\* variant: the whole dictionary is cleared
Remove_all(d, c) == [k \in {} |-> 0]

\* del d[c]
Remove(d, c) == [k \in DOMAIN d \ {c} |-> d[k]]

\* send_message(client_id, message): the websocket the message is sent on
send_target(conns, c) == IF c \in DOMAIN conns THEN conns[c] ELSE NoSocket

NoCall ==
    [data |-> NoFrame, outcome |-> "none", raised |-> "",
     held |-> << >>, drained |-> << >>, vad |-> -1, denoised |-> -1,
     transcribed |-> 0, words |-> << >>, results |-> << >>, sent |-> << >>]

NoLast == [socket |-> NoSocket, call |-> NoCall]

NoGen == [active |-> FALSE, words |-> << >>, i |-> 0]

(***************************************************************************)
(* Initial state: the ConnectionManager after __init__, no connection      *)
(***************************************************************************)
\* no connection to the murmur-server yet; nothing recorded in redis
NoUser == "None"
UserIds == {"u1"}
NoBuff == << >>

InitMurmur ==
    /\ root_pc = "start"
    /\ ws = [application_state |-> "connecting", close_code |-> 0]
    /\ user_id = NoUser
    /\ root_buff = NoBuff
    /\ usage = [u \in UserIds \cup {NoUser} |-> 0]

MaxDemoConn == 2
DemoSockets == 1..MaxDemoConn
\* None, for a datetime
NoTime == 0
\* ServiceMetric(): connected_time None, first_response_time None,
\* sent_audio_seconds 0.0 (in bytes of the buffer per SAMPLE_RATE_HZ)
ServiceMetric ==
    [connected_time |-> NoTime, first_response_time |-> NoTime,
     sent_audio_seconds |-> 0]

\* the demo-server after import: no connection, metrics and buffs empty, and
\* the two ServiceMetric objects made once in the body of class SessionMetric
InitDemo ==
    /\ demo_metrics = {}
    /\ SessionMetric = [murmur |-> ServiceMetric, control |-> ServiceMetric]
    /\ buffs = [c \in ClientIds |-> 0]
    /\ clock = 1
    /\ demo_pc = [s \in DemoSockets |-> "idle"]
    /\ demo_path = [s \in DemoSockets |-> ""]
    /\ demo_client = [s \in DemoSockets |-> NoClient]
    /\ client_ws = [s \in DemoSockets |-> "open"]
    /\ murmur_ws = [s \in DemoSockets |-> "none"]
    /\ handle_audio = [s \in DemoSockets |-> "none"]
    /\ handle_transcript = [s \in DemoSockets |-> "none"]
    /\ transcript = [s \in DemoSockets |-> ""]
    /\ sent = [s \in DemoSockets |-> {}]

InitOther == InitMurmur /\ InitDemo

InitManager ==
    /\ active_connections = EmptyDict
    /\ audio_buffers = EmptyDict
    /\ buffer_sizes = EmptyDict
    /\ audio_metrics = EmptyDict
    /\ now = 0

InitHandlers ==
    /\ pc = [w \in Sockets |-> "idle"]
    /\ client_of = [w \in Sockets |-> NoClient]
    /\ gen = [w \in Sockets |-> NoGen]
    /\ nrecv = 0
    /\ call = [w \in Sockets |-> NoCall]
    /\ latest = NoLast
    /\ accepted_samples = [c \in ClientIds |-> 0]

Init ==
    /\ InitManager
    /\ InitHandlers
    /\ hin = << >>
    /\ hout = << >>
    /\ InitOther

(***************************************************************************)
(* websocket_endpoint: connect and disconnect                              *)
(***************************************************************************)
\* Websockets are taken in order and client ids in order of first use: the
\* code treats all websockets alike and all client ids alike.
NextClientIds ==
    IF now = 0 THEN {"a"} ELSE ClientIds

\* variant: connect keeps the buffer and the size of a registered client id
Connect_keep(w, c) ==
    /\ pc[w] = "idle"
    /\ \A v \in Sockets : v < w => pc[v] # "idle"
    /\ c \in NextClientIds
    /\ active_connections' = (c :> w) @@ active_connections
    /\ audio_buffers' = audio_buffers @@ (c :> << >>)
    /\ buffer_sizes' = buffer_sizes @@ (c :> 0)
    /\ now' = now + 1
    /\ audio_metrics' = (c :> [total_audio_seconds |-> 0,
                               processed_audio_seconds |-> 0,
                               session_start_time |-> now']) @@ audio_metrics
    /\ pc' = [pc EXCEPT ![w] = "receive"]
    /\ client_of' = [client_of EXCEPT ![w] = c]
    /\ accepted_samples' = [accepted_samples EXCEPT ![c] = 0]
    /\ latest' = NoLast
    /\ UNCHANGED <<gen, nrecv, call>>
    /\ UNCHANGED <<harnessVars, otherVars>>

\* manager.connect(websocket, client_id), resumed after websocket.accept()
Connect(w, c) ==
    /\ pc[w] = "idle"
    /\ \A v \in Sockets : v < w => pc[v] # "idle"
    /\ c \in NextClientIds
    /\ active_connections' = (c :> w) @@ active_connections
    /\ audio_buffers' = (c :> << >>) @@ audio_buffers
    /\ buffer_sizes' = (c :> 0) @@ buffer_sizes
    /\ now' = now + 1
    /\ audio_metrics' = (c :> [total_audio_seconds |-> 0,
                               processed_audio_seconds |-> 0,
                               session_start_time |-> now']) @@ audio_metrics
    /\ pc' = [pc EXCEPT ![w] = "receive"]
    /\ client_of' = [client_of EXCEPT ![w] = c]
    /\ accepted_samples' = [accepted_samples EXCEPT ![c] = 0]
    /\ latest' = NoLast
    /\ UNCHANGED <<gen, nrecv, call>>
    /\ UNCHANGED <<harnessVars, otherVars>>

\* receive_bytes() raises WebSocketDisconnect (or anything else):
\* manager.disconnect(client_id), and the coroutine ends
Disconnect(w) ==
    /\ pc[w] = "receive"
    /\ LET c == client_of[w] IN
         IF c \in DOMAIN active_connections
         THEN /\ active_connections' = Remove(active_connections, c)
              /\ audio_buffers' = Remove(audio_buffers, c)
              /\ buffer_sizes' = Remove(buffer_sizes, c)
         ELSE UNCHANGED <<active_connections, audio_buffers, buffer_sizes>>
    /\ pc' = [pc EXCEPT ![w] = "closed"]
    /\ client_of' = [client_of EXCEPT ![w] = NoClient]
    /\ latest' = NoLast
    /\ UNCHANGED <<audio_metrics, now, gen, nrecv, call, accepted_samples>>
    /\ UNCHANGED <<harnessVars, otherVars>>


(***************************************************************************)
(* process_audio_chunk, from receive_bytes() to its first suspension.      *)
(* The VAD, the noise reduction and the API call of the transcriber are    *)
(* synchronous calls: the code from the receive to the first               *)
(* `await send_json` (or to the return) runs without suspension.           *)
(***************************************************************************)
CanReceive(w) == pc[w] = "receive"

\* the except clause / an emission: send_message(client_id, msg) is called
Sent(c, msg) == [msg |-> msg, to |-> send_target(active_connections, c)]

\* the buffer store after add_to_buffer(client_id, audio_tensor)
Added(w, data) ==
    add_to_buffer(audio_buffers, buffer_sizes, client_of[w], frombuffer(data))

\* the result and the buffer store after get_buffer_content(client_id)
Drained(w, data) ==
    LET ab == Added(w, data)
    IN  get_buffer_content(ab.audio_buffers, ab.buffer_sizes, client_of[w])

\* variant: only an empty chunk is skipped
TooSmall_empty(audio_np) == numel(audio_np) < 1

\* if audio_np.size < 100
TooSmall(audio_np) == numel(audio_np) < MIN_CHUNK_SAMPLES

Accepted(data) ==
    frombuffer_ok(data) /\ ~TooSmall(frombuffer(data))

Flushing(w, data) ==
    /\ Accepted(data)
    /\ should_process_buffer(Added(w, data).buffer_sizes, client_of[w],
                             frombuffer(data))

\* variant: every update is added to processed_audio_seconds
AddMetric_processed(metrics, c, field, samples) ==
    IF c \in DOMAIN metrics
    THEN [metrics EXCEPT ![c].processed_audio_seconds = @ + samples]
    ELSE metrics

\* audio_metrics[client_id][field] += samples, if the client has metrics
AddMetric(metrics, c, field, samples) ==
    IF c \in DOMAIN metrics
    THEN [metrics EXCEPT ![c][field] = @ + samples]
    ELSE metrics

\* the state every flush leaves: buffer drained, total metric updated
FlushCommon(w, data) ==
    LET c == client_of[w]
        d == Drained(w, data)
    IN  /\ audio_buffers' = d.audio_buffers
        /\ buffer_sizes' = d.buffer_sizes
        /\ accepted_samples' =
             [accepted_samples EXCEPT ![c] = @ + numel(frombuffer(data))]
        /\ nrecv' = nrecv + 1
        /\ UNCHANGED <<active_connections, now, client_of, harnessVars, otherVars>>

FlushCall(w, data) ==
    [NoCall EXCEPT !.data = data, !.outcome = "flushed",
                   !.held = Added(w, data).audio_buffers[client_of[w]],
                   !.drained = Drained(w, data).result]

\* the histories after the call described by r has run up to its first
\* suspension (suspended) or up to its return
Recorded(w, r, suspended) ==
    /\ latest' = [socket |-> w, call |-> r]
    /\ call' = [call EXCEPT ![w] = IF suspended THEN r ELSE NoCall]

\* np.frombuffer raises: the except clause sends one error message
ChunkMalformed(w, data) ==
    /\ CanReceive(w)
    /\ ~frombuffer_ok(data)
    /\ Recorded(w, [NoCall EXCEPT !.data = data, !.outcome = "raised",
                                  !.raised = "decode",
                                  !.sent = <<Sent(client_of[w], ErrorMsg("decode"))>>],
                TRUE)
    /\ pc' = [pc EXCEPT ![w] = "send"]
    /\ gen' = [gen EXCEPT ![w] = NoGen]
    /\ nrecv' = nrecv + 1
    /\ UNCHANGED <<managerVars, client_of, accepted_samples>>
    /\ UNCHANGED <<harnessVars, otherVars>>

\* audio_np.size < 100: return
ChunkSkipped(w, data) ==
    /\ CanReceive(w)
    /\ frombuffer_ok(data)
    /\ TooSmall(frombuffer(data))
    /\ Recorded(w, [NoCall EXCEPT !.data = data, !.outcome = "skipped"], FALSE)
    /\ nrecv' = nrecv + 1
    /\ UNCHANGED <<managerVars, pc, client_of, gen, accepted_samples>>
    /\ UNCHANGED <<harnessVars, otherVars>>

\* add_to_buffer, should_process_buffer is False: return
ChunkBuffered(w, data) ==
    /\ CanReceive(w)
    /\ Accepted(data)
    /\ ~Flushing(w, data)
    /\ audio_buffers' = Added(w, data).audio_buffers
    /\ buffer_sizes' = Added(w, data).buffer_sizes
    /\ accepted_samples' =
         [accepted_samples EXCEPT ![client_of[w]] = @ + numel(frombuffer(data))]
    /\ Recorded(w, [NoCall EXCEPT !.data = data, !.outcome = "buffered"], FALSE)
    /\ nrecv' = nrecv + 1
    /\ UNCHANGED <<active_connections, audio_metrics, now, pc, client_of, gen>>
    /\ UNCHANGED <<harnessVars, otherVars>>

\* flush, the VAD raises: the except clause sends one error message
FlushVadRaises(w, data) ==
    /\ CanReceive(w)
    /\ Flushing(w, data)
    /\ FlushCommon(w, data)
    /\ audio_metrics' = AddMetric(audio_metrics, client_of[w], "total_audio_seconds",
                                  numel(Drained(w, data).result))
    /\ Recorded(w, [FlushCall(w, data) EXCEPT
                       !.raised = "vad",
                       !.sent = <<Sent(client_of[w], ErrorMsg("vad"))>>],
                TRUE)
    /\ pc' = [pc EXCEPT ![w] = "send"]
    /\ gen' = [gen EXCEPT ![w] = NoGen]

\* flush, voice_only_tensor.numel() == 0: no_voice_detected, return
FlushNoVoice(w, data) ==
    /\ CanReceive(w)
    /\ Flushing(w, data)
    /\ 0 \in VadResults(numel(Drained(w, data).result))
    /\ FlushCommon(w, data)
    /\ audio_metrics' = AddMetric(audio_metrics, client_of[w], "total_audio_seconds",
                                  numel(Drained(w, data).result))
    /\ Recorded(w, [FlushCall(w, data) EXCEPT
                       !.vad = 0,
                       !.sent = <<Sent(client_of[w], NoVoiceMsg)>>],
                TRUE)
    /\ pc' = [pc EXCEPT ![w] = "send"]
    /\ gen' = [gen EXCEPT ![w] = NoGen]

\* flush, voice found, the noise reduction raises: one error message
FlushNoiseRaises(w, data) ==
    /\ CanReceive(w)
    /\ Flushing(w, data)
    /\ \E m \in VadResults(numel(Drained(w, data).result)) \ {0} :
         Recorded(w, [FlushCall(w, data) EXCEPT
                         !.vad = m, !.raised = "noise",
                         !.sent = <<Sent(client_of[w], ErrorMsg("noise"))>>],
                  TRUE)
    /\ FlushCommon(w, data)
    /\ audio_metrics' = AddMetric(audio_metrics, client_of[w], "total_audio_seconds",
                                  numel(Drained(w, data).result))
    /\ pc' = [pc EXCEPT ![w] = "send"]
    /\ gen' = [gen EXCEPT ![w] = NoGen]


\* the body of `async for transcription_chunk in ...`: the message sent for a
\* chunk, and whether the loop is left after it (return on error, break on final)
ChunkMessage(chunk) ==
    IF chunk.status = "error" THEN chunk ELSE SuccessMsg(chunk)

LeavesLoop(chunk) == chunk.status = "error" \/ chunk.is_final

\* flush, voice found, noise reduced, the transcriber is iterated up to the
\* first send (or to the end of the function when it yields nothing)
FlushTranscribe(w, data) ==
    /\ CanReceive(w)
    /\ Flushing(w, data)
    /\ FlushCommon(w, data)
    /\ \E m \in VadResults(numel(Drained(w, data).result)) \ {0} :
       \E d \in NoiseResults(m) :
       \E tr \in TranscriberOutcomes :
         LET c == client_of[w]
             first == transcribe_first(d, tr)
             words == IF d = 0 \/ tr < 0 THEN << >> ELSE Words(tr)
             base == [FlushCall(w, data) EXCEPT
                         !.vad = m, !.denoised = d, !.transcribed = 1,
                         !.words = words]
         IN  /\ audio_metrics' =
                  AddMetric(AddMetric(audio_metrics, c, "total_audio_seconds",
                                      numel(Drained(w, data).result)),
                            c, "processed_audio_seconds", d)
             /\ IF first = << >>
                THEN /\ Recorded(w, base, FALSE)
                     /\ gen' = [gen EXCEPT ![w] = NoGen]
                     /\ pc' = pc
                ELSE /\ Recorded(w, [base EXCEPT
                                       !.results = first,
                                       !.sent = <<Sent(c, ChunkMessage(first[1]))>>],
                                 TRUE)
                     /\ gen' = [gen EXCEPT ![w] =
                           IF LeavesLoop(first[1]) THEN NoGen
                           ELSE [active |-> TRUE, words |-> words, i |-> 1]]
                     /\ pc' = [pc EXCEPT ![w] = "send"]

\* resumed after `await send_json` with the loop left (or no loop): the call
\* returns and the coroutine waits in receive_bytes()
Return(w) ==
    /\ pc[w] = "send"
    /\ ~gen[w].active
    /\ pc' = [pc EXCEPT ![w] = "receive"]
    /\ call' = [call EXCEPT ![w] = NoCall]
    /\ latest' = NoLast
    /\ UNCHANGED <<managerVars, client_of, gen, nrecv, accepted_samples>>
    /\ UNCHANGED <<harnessVars, otherVars>>

\* resumed after `await send_json` inside the loop: the generator sleeps
\* (asyncio.sleep(0.1)), is resumed, and its next chunk is sent
NextChunk(w) ==
    /\ pc[w] = "send"
    /\ gen[w].active
    /\ LET nxt == transcribe_next(gen[w].words, gen[w].i)
       IN  IF nxt = << >>
           THEN /\ pc' = [pc EXCEPT ![w] = "receive"]
                /\ gen' = [gen EXCEPT ![w] = NoGen]
                /\ call' = [call EXCEPT ![w] = NoCall]
           ELSE /\ call' = [call EXCEPT
                              ![w].results = @ \o nxt,
                              ![w].sent =
                                Append(@, Sent(client_of[w], ChunkMessage(nxt[1])))]
                /\ gen' = [gen EXCEPT ![w] =
                             IF LeavesLoop(nxt[1]) THEN NoGen
                             ELSE [@ EXCEPT !.i = @ + 1]]
                /\ pc' = pc
    /\ latest' = NoLast
    /\ UNCHANGED <<managerVars, client_of, nrecv, accepted_samples>>
    /\ UNCHANGED <<harnessVars, otherVars>>

\* the model stops receiving after MaxRecv messages
Budget == nrecv < MaxRecv

Next ==
    \/ \E w \in Sockets, c \in ClientIds : Connect(w, c)
    \/ \E w \in Sockets : Disconnect(w)
    \/ \E w \in Sockets, data \in Frames : Budget /\ ChunkMalformed(w, data)
    \/ \E w \in Sockets, data \in Frames : Budget /\ ChunkSkipped(w, data)
    \/ \E w \in Sockets, data \in Frames : Budget /\ ChunkBuffered(w, data)
    \/ \E w \in Sockets, data \in Frames : Budget /\ FlushVadRaises(w, data)
    \/ \E w \in Sockets, data \in Frames : Budget /\ FlushNoVoice(w, data)
    \/ \E w \in Sockets, data \in Frames : Budget /\ FlushNoiseRaises(w, data)
    \/ \E w \in Sockets, data \in Frames : Budget /\ FlushTranscribe(w, data)
    \/ \E w \in Sockets : Return(w)
    \/ \E w \in Sockets : NextChunk(w)

Spec == Init /\ [][Next]_vars


(***************************************************************************)
(* The flush decision on its own: from an empty store, the fragments of    *)
(* hin.prior and then hin.frag are appended for client "a", and both       *)
(* servers decide on the buffer that results.                              *)
(***************************************************************************)
Tone1sLess == << <<15999, 500>> >>
Silence1sLess == << <<15999, 0>> >>

FlushPriorKinds == {Tone3s, Tone1s, Tone15, Silence05}

FlushLastKinds ==
    {Tone1s, Silence1s, Tone3s, Tone15, Silence15, Silence05, ToneQuietTail,
     QuietToneTail, Hum9, Hum10, ShortSilent, ShortTone, Tiny, Least,
     Tone1sLess, Silence1sLess, EmptyTensor}

RECURSIVE SeqsUpTo(_, _)
SeqsUpTo(S, n) ==
    IF n = 0 THEN {<< >>}
    ELSE LET shorter == SeqsUpTo(S, n - 1)
         IN  shorter \cup {Append(q, x) : q \in shorter, x \in S}

InitFlush ==
    /\ InitManager
    /\ InitHandlers
    /\ hin \in [prior : SeqsUpTo(FlushPriorKinds, MaxPrior), frag : FlushLastKinds]
    /\ hout = << >>
    /\ InitOther

\* add_to_buffer("a", next fragment of hin.prior)
HarnessAppend ==
    /\ hin.prior # << >>
    /\ LET ab == add_to_buffer(audio_buffers, buffer_sizes, "a", Head(hin.prior))
       IN  /\ audio_buffers' = ab.audio_buffers
           /\ buffer_sizes' = ab.buffer_sizes
    /\ hin' = [hin EXCEPT !.prior = Tail(@)]
    /\ UNCHANGED <<active_connections, audio_metrics, now, handlerVars, otherVars, hout>>

\* add_to_buffer("a", hin.frag); should_process_buffer("a", hin.frag) and
\* buff.append(hin.frag); should_flush(buff)
HarnessDecide ==
    /\ hin.prior = << >>
    /\ hout = << >>
    /\ InitOther
    /\ LET ab == add_to_buffer(audio_buffers, buffer_sizes, "a", hin.frag)
       IN  /\ audio_buffers' = ab.audio_buffers
           /\ buffer_sizes' = ab.buffer_sizes
           /\ hout' = <<[backend |-> should_process_buffer(ab.buffer_sizes, "a", hin.frag),
                         murmur |-> should_flush(ab.audio_buffers["a"])]>>
    /\ UNCHANGED <<active_connections, audio_metrics, now, handlerVars, otherVars, hin>>

NextFlush == HarnessAppend \/ HarnessDecide

SpecFlush == InitFlush /\ [][NextFlush]_vars


(***************************************************************************)
(* Properties of the flush decision (SpecFlush)                            *)
(***************************************************************************)
Decided == hout # << >>

\* the buffered duration of client "a", in samples, after the append
BufferedSamples == get_buffer_duration(buffer_sizes, "a")

\* the last 200 ms (3200 samples at 16000 Hz) of t, or all of t when it is
\* shorter, have an RMS below 0.01: mean square below 0.0001
TailIsSilent(t) ==
    LET k == Min(3200, numel(t))
    IN  TailSquares(t, k) < 100 * k

\* C1: whenever the buffered duration after the append is at least 5.0 s
\* (80000 samples), both servers decide to flush, whatever the last fragment.
ThmC1_CapFlushes ==
    (Decided /\ BufferedSamples >= 80000) => (hout[1].backend /\ hout[1].murmur)

\* exactly 5.0 s buffered and a last fragment of pure tone: flushed
WitC1_CapWithTone ==
    /\ Decided
    /\ BufferedSamples = 80000
    /\ hin.frag = Tone1s
    /\ hout[1].backend
    /\ hout[1].murmur

\* C2: below 5.0 s the decision is to flush exactly when at least 1.5 s
\* (24000 samples) are buffered and the tail of the last fragment is silent.
ThmC2_SilenceRule ==
    (Decided /\ BufferedSamples < 80000) =>
        LET rule == BufferedSamples >= 24000 /\ TailIsSilent(hin.frag)
        IN  /\ hout[1].backend = rule
            /\ hout[1].murmur = rule

\* exactly 1.5 s buffered, tone followed by 200 ms of silence: flushed
WitC2_MinWithSilentTail ==
    /\ Decided
    /\ BufferedSamples = 24000
    /\ hin.frag = ToneQuietTail
    /\ hout[1].backend
    /\ hout[1].murmur


(***************************************************************************)
(* The buffer store on its own: add_to_buffer, get_buffer_content and the  *)
(* removal of disconnect called in any order for any client id.            *)
(* hout holds the latest call: its name, client id and result; tick        *)
(* alternates so that two equal calls in a row are two steps.              *)
(***************************************************************************)
\* longest buffer the store is driven to
MaxHeld == 2

StoreKinds == {Tone1s, Silence05}

Tick == IF hout = << >> THEN 0 ELSE hout[1].tick

StoreCall(op, c, result) ==
    <<[op |-> op, client |-> c, result |-> result, tick |-> 1 - Tick]>>

InitStore ==
    /\ InitManager
    /\ InitHandlers
    /\ hin = << >>
    /\ hout = << >>
    /\ InitOther

\* add_to_buffer(c, t)
StoreAdd(c, t) ==
    /\ c \in DOMAIN audio_buffers => Len(audio_buffers[c]) < MaxHeld
    /\ LET ab == add_to_buffer(audio_buffers, buffer_sizes, c, t)
       IN  /\ audio_buffers' = ab.audio_buffers
           /\ buffer_sizes' = ab.buffer_sizes
    /\ hout' = StoreCall("add", c, << >>)
    /\ UNCHANGED <<active_connections, audio_metrics, now, handlerVars, otherVars, hin>>

\* get_buffer_content(c)
StoreDrain(c) ==
    /\ LET g == get_buffer_content(audio_buffers, buffer_sizes, c)
       IN  /\ audio_buffers' = g.audio_buffers
           /\ buffer_sizes' = g.buffer_sizes
           /\ hout' = StoreCall("drain", c, g.result)
    /\ UNCHANGED <<active_connections, audio_metrics, now, handlerVars, otherVars, hin>>

\* disconnect(c): del audio_buffers[c]; del buffer_sizes[c]
StoreRemove(c) ==
    /\ c \in DOMAIN audio_buffers
    /\ audio_buffers' = Remove(audio_buffers, c)
    /\ buffer_sizes' = Remove(buffer_sizes, c)
    /\ hout' = StoreCall("remove", c, << >>)
    /\ UNCHANGED <<active_connections, audio_metrics, now, handlerVars, otherVars, hin>>

NextStore ==
    \/ \E c \in ClientIds, t \in StoreKinds : StoreAdd(c, t)
    \/ \E c \in ClientIds : StoreDrain(c)
    \/ \E c \in ClientIds : StoreRemove(c)

SpecStore == InitStore /\ [][NextStore]_vars

(***************************************************************************)
(* Properties of the buffer store                                          *)
(***************************************************************************)
\* the tensors of a list joined first to last
RECURSIVE InOrder(_)
InOrder(buff) ==
    IF buff = << >> THEN << >>
    ELSE InOrder(SubSeq(buff, 1, Len(buff) - 1)) \o buff[Len(buff)]

\* the client whose call the preceding step started
LatestClient == client_of[latest.socket]

JustFlushed == latest.socket # NoSocket /\ latest.call.outcome = "flushed"

\* C3: for every client id with a buffer entry the size is the sum of the
\* sample counts of the fragments held, which get_buffer_duration reports;
\* the duration is 0 right after a drain and 0 for a client without entry.
ThmC3_SizeIsSum ==
    /\ DOMAIN buffer_sizes = DOMAIN audio_buffers
    /\ \A c \in DOMAIN audio_buffers :
         /\ buffer_sizes[c] = SumNumel(audio_buffers[c])
         /\ get_buffer_duration(buffer_sizes, c) = SumNumel(audio_buffers[c])
    /\ \A c \in ClientIds \ DOMAIN audio_buffers :
         get_buffer_duration(buffer_sizes, c) = 0
    /\ JustFlushed => get_buffer_duration(buffer_sizes, LatestClient) = 0

\* a client holds two fragments, 2.0 s in all
WitC3_TwoFragmentsHeld ==
    \E c \in DOMAIN audio_buffers :
        /\ Len(audio_buffers[c]) = 2
        /\ get_buffer_duration(buffer_sizes, c) = 32000

\* C4: the step that drains returns the fragments held before it and the
\* fragment just appended, joined in that order, and leaves list and size
\* empty in the same step; nothing is lost between result and buffer.
ThmC4_DrainInOrderAtOnce ==
    [][\A w \in Sockets :
         (latest'.socket = w /\ latest'.call.outcome = "flushed") =>
            LET c == client_of[w]
                before == IF c \in DOMAIN audio_buffers
                          THEN audio_buffers[c] ELSE << >>
                held == Append(before, latest'.call.data.pcm)
            IN  /\ latest'.call.drained = InOrder(held)
                /\ audio_buffers'[c] = << >>
                /\ buffer_sizes'[c] = 0
                /\ numel(latest'.call.drained) =
                     get_buffer_duration(buffer_sizes, c)
                       + numel(latest'.call.data.pcm)]_vars

\* a drain of two different fragments
WitC4_TwoDrained ==
    /\ JustFlushed
    /\ Len(latest.call.held) = 2
    /\ latest.call.held[1] # latest.call.held[2]
    /\ audio_buffers[LatestClient] = << >>

\* C5: a drain of an empty buffer or of a client id without entry returns an
\* empty result and leaves the store as it was (no entry appears); the
\* second of two drains in a row returns an empty result.
ThmC5_EmptyDrain ==
    [][(hout' # hout /\ hout'[1].op = "drain") =>
         LET c == hout'[1].client
         IN  /\ (c \notin DOMAIN audio_buffers \/ audio_buffers[c] = << >>) =>
                  /\ hout'[1].result = << >>
                  /\ audio_buffers' = audio_buffers
                  /\ buffer_sizes' = buffer_sizes
             /\ (hout # << >> /\ hout[1].op = "drain" /\ hout[1].client = c) =>
                  hout'[1].result = << >>]_vars

\* a client id without entry was drained after a drain that returned audio
WitC5_DrainOfAbsent ==
    /\ hout # << >>
    /\ hout[1].op = "drain"
    /\ hout[1].result = << >>
    /\ hout[1].client \notin DOMAIN audio_buffers
    /\ \E c \in DOMAIN audio_buffers : audio_buffers[c] # << >>


(***************************************************************************)
(* End to end: the client on the first websocket sends five 1 s fragments  *)
(* of 0.5-amplitude tone and then 1 s of silence, and stays connected.     *)
(* The other websockets belong to another client id, which connects,       *)
(* sends and disconnects as it likes.                                      *)
(***************************************************************************)
ScenarioSocket == 1
ScenarioClient == "a"
OtherClient == "b"

Script ==
    <<Frame(Tone1s, 0), Frame(Tone1s, 0), Frame(Tone1s, 0), Frame(Tone1s, 0),
      Frame(Tone1s, 0), Frame(Silence1s, 0)>>

\* fragments of the script handled so far: each has sample_rate samples
ScriptPos == accepted_samples[ScenarioClient] \div sample_rate

\* the fragment the scenario client sends next
ScriptNext == IF ScriptPos < Len(Script) THEN {Script[ScriptPos + 1]} ELSE {}

OtherSockets == Sockets \ {ScenarioSocket}

\* the other client stops sending after MaxRecv messages
OtherBudget == nrecv - ScriptPos < MaxRecv

NextC6 ==
    \/ Connect(ScenarioSocket, ScenarioClient)
    \/ \E w \in OtherSockets : Connect(w, OtherClient)
    \/ \E w \in OtherSockets : Disconnect(w)
    \/ \E data \in ScriptNext : ChunkBuffered(ScenarioSocket, data)
    \/ \E data \in ScriptNext : FlushVadRaises(ScenarioSocket, data)
    \/ \E data \in ScriptNext : FlushNoVoice(ScenarioSocket, data)
    \/ \E data \in ScriptNext : FlushNoiseRaises(ScenarioSocket, data)
    \/ \E data \in ScriptNext : FlushTranscribe(ScenarioSocket, data)
    \/ \E w \in OtherSockets, data \in Frames : OtherBudget /\ ChunkMalformed(w, data)
    \/ \E w \in OtherSockets, data \in Frames : OtherBudget /\ ChunkSkipped(w, data)
    \/ \E w \in OtherSockets, data \in Frames : OtherBudget /\ ChunkBuffered(w, data)
    \/ \E w \in OtherSockets, data \in Frames : OtherBudget /\ FlushVadRaises(w, data)
    \/ \E w \in OtherSockets, data \in Frames : OtherBudget /\ FlushNoVoice(w, data)
    \/ \E w \in OtherSockets, data \in Frames : OtherBudget /\ FlushNoiseRaises(w, data)
    \/ \E w \in OtherSockets, data \in Frames : OtherBudget /\ FlushTranscribe(w, data)
    \/ \E w \in Sockets : Return(w)
    \/ \E w \in Sockets : NextChunk(w)

SpecC6 == Init /\ [][NextC6]_vars

ScenarioConnected == pc[ScenarioSocket] # "idle"

\* n copies of fragment t
Copies(t, n) == [i \in 1..n |-> t]

ScenarioJustHandled == latest.socket = ScenarioSocket

\* C6: of the six fragments only the fifth causes a flush, and the cap causes
\* it (5.0 s held, the tail not silent); the drained audio is the first five
\* fragments in order; the sixth stays buffered and nothing more is flushed.
ThmC6_OneFlushAtFifth ==
    ScenarioConnected =>
      /\ ScriptPos <= Len(Script)
      /\ ScriptPos < 5 =>
           /\ audio_buffers[ScenarioClient] = Copies(Tone1s, ScriptPos)
           /\ audio_metrics[ScenarioClient].total_audio_seconds = 0
      /\ ScriptPos = 5 =>
           /\ audio_buffers[ScenarioClient] = << >>
           /\ audio_metrics[ScenarioClient].total_audio_seconds = 5 * sample_rate
      /\ ScriptPos = 6 =>
           /\ audio_buffers[ScenarioClient] = <<Silence1s>>
           /\ audio_metrics[ScenarioClient].total_audio_seconds = 5 * sample_rate
      /\ ScenarioJustHandled =>
           /\ (latest.call.outcome = "flushed") = (ScriptPos = 5)
           /\ (latest.call.outcome = "buffered") = (ScriptPos # 5)
           /\ ScriptPos = 5 =>
                /\ latest.call.held = Copies(Tone1s, 5)
                /\ latest.call.drained = InOrder(Copies(Tone1s, 5))
                /\ AtLeast(numel(latest.call.drained), BUFFER_MAX_SECONDS)
                /\ ~TailIsSilent(latest.call.data.pcm)

\* the sixth fragment has been handled and the handler waits for a seventh
WitC6_SixthStaysBuffered ==
    /\ ScenarioJustHandled
    /\ ScriptPos = 6
    /\ pc[ScenarioSocket] = "receive"
    /\ get_buffer_duration(buffer_sizes, ScenarioClient) = sample_rate

\* C7 (as claimed): total_audio_seconds is the duration of all fragments
\* accepted so far, buffered audio included.
CexC7_TotalCountsBuffered ==
    \A w \in Sockets :
        (pc[w] \in {"receive", "send"} /\ client_of[w] \in DOMAIN audio_metrics) =>
            audio_metrics[client_of[w]].total_audio_seconds
              = accepted_samples[client_of[w]]

\* C8: a well-formed fragment of fewer than 100 samples changes neither the
\* buffers, the sizes nor the metrics, starts no flush, sends no message, and
\* the handler is back at its receive.
ThmC8_SmallFragmentDropped ==
    [][\A w \in Sockets :
         (/\ latest'.socket = w
          /\ latest'.call.data.nbytes = FLOAT32_BYTES * numel(latest'.call.data.pcm)
          /\ numel(latest'.call.data.pcm) < 100) =>
            /\ audio_buffers' = audio_buffers
            /\ buffer_sizes' = buffer_sizes
            /\ audio_metrics' = audio_metrics
            /\ active_connections' = active_connections
            /\ latest'.call.outcome = "skipped"
            /\ latest'.call.drained = << >>
            /\ latest'.call.vad = -1
            /\ latest'.call.sent = << >>
            /\ call'[w] = NoCall
            /\ pc'[w] = "receive"
            /\ client_of'[w] = client_of[w]]_vars

\* a fragment of 99 samples was dropped while the client held audio
WitC8_DroppedWhileHolding ==
    /\ latest.socket # NoSocket
    /\ latest.call.outcome = "skipped"
    /\ numel(latest.call.data.pcm) = 99
    /\ pc[latest.socket] = "receive"
    /\ get_buffer_duration(buffer_sizes, LatestClient) > 0


\* the flush of the handler on websocket w that is under way
FlushOf(w) == call[w]

\* C9 (as claimed): when the VAD returns nothing for a flushed buffer, the
\* client of that handler receives exactly one no_voice_detected message,
\* noise reduction and transcription are not invoked, the processed metric
\* is unchanged and the buffer is left empty.
CexC9_OneNoVoiceMessage ==
    [][\A w \in Sockets :
         (call'[w].outcome = "flushed" /\ call'[w].vad = 0) =>
            /\ call'[w].sent = <<[msg |-> [status |-> "no_voice_detected"],
                                  to |-> w]>>
            /\ call'[w].denoised = -1
            /\ call'[w].transcribed = 0
            /\ ~gen'[w].active
            /\ latest'.socket = w =>
                 /\ audio_buffers'[client_of[w]] = << >>
                 /\ buffer_sizes'[client_of[w]] = 0
                 /\ client_of[w] \in DOMAIN audio_metrics =>
                      audio_metrics'[client_of[w]].processed_audio_seconds
                        = audio_metrics[client_of[w]].processed_audio_seconds]_vars

\* the message the claim expects for the i-th result of a flush
ExpectedMessage(r) ==
    IF r.status = "error"
    THEN [status |-> "error", message |-> r.message]
    ELSE [status |-> "success", transcription |-> r.text, is_final |-> r.is_final]

Stops(r) == r.status = "error" \/ r.is_final

\* C10 (as claimed): the results of one flush reach the client of that
\* handler in the order generated, each as the success message with its
\* is_final flag or as one error message, and nothing follows an error or a
\* result flagged final.
CexC10_ResultsInOrder ==
    \A w \in Sockets :
        FlushOf(w).transcribed = 1 =>
            LET rs == FlushOf(w).results
                ms == FlushOf(w).sent
            IN  /\ Len(ms) = Len(rs)
                /\ \A i \in 1..Len(rs) :
                     /\ ms[i].to = w
                     /\ ms[i].msg = ExpectedMessage(rs[i])
                     /\ rs[i].status = "success" =>
                          rs[i].text = FlushOf(w).words[i]
                     /\ i < Len(rs) => ~Stops(rs[i])
                /\ (rs # << >> /\ Stops(rs[Len(rs)])) => ~gen[w].active


(***************************************************************************)
(* Properties of the error paths                                           *)
(***************************************************************************)
\* the step at which an exception was raised in the call r, "" if none: the
\* transcriber turns its own exception into an error chunk
RaisedAt(r) ==
    IF r.raised # "" THEN r.raised
    ELSE IF r.results # << >> /\ r.results[1] = [status |-> "error",
                                                  message |-> "transcribe"]
         THEN "transcribe"
         ELSE ""

\* handler w took the step
Stepped(w) == pc'[w] # pc[w] \/ call'[w] # call[w] \/ gen'[w] # gen[w]

\* C11 (as claimed): an exception at any step of a call yields exactly one
\* error message, delivered to the client of that handler, and the handler
\* then waits for the next fragment of its open connection.
CexC11_OneErrorKeepsOpen ==
    [][\A w \in Sockets :
         /\ RaisedAt(call'[w]) # "" =>
              /\ call'[w].sent =
                   <<[msg |-> [status |-> "error", message |-> RaisedAt(call'[w])],
                      to |-> w]>>
              /\ pc'[w] = "send"
              /\ ~gen'[w].active
         /\ (RaisedAt(call[w]) # "" /\ Stepped(w)) =>
              /\ pc'[w] = "receive"
              /\ call'[w] = NoCall
              /\ managerVars' = managerVars]_vars


CollaboratorFailed(r) == RaisedAt(r) \in {"vad", "noise", "transcribe"}

\* the flush rule: 5.0 s held, or 1.5 s held and a silent tail
NormalRule(samples, t) ==
    \/ samples >= 80000
    \/ samples >= 24000 /\ TailIsSilent(t)

\* C12: when the VAD, the noise reduction or the transcriber fails in a
\* flush, the buffer is empty at that step and one error message is issued;
\* the handler's next step takes it back to its receive without touching the
\* buffers (nothing restored, nothing transcribed again); and every fragment
\* accepted later is flushed exactly when the flush rule says so.
ThmC12_FailureLeavesDrained ==
    [][\A w \in Sockets :
         /\ (latest'.socket = w /\ CollaboratorFailed(latest'.call)) =>
              /\ latest'.call.drained # << >>
              /\ audio_buffers'[client_of[w]] = << >>
              /\ buffer_sizes'[client_of[w]] = 0
              /\ Len(latest'.call.sent) = 1
              /\ latest'.call.sent[1].msg.status = "error"
              /\ call'[w] = latest'.call
         /\ (CollaboratorFailed(call[w]) /\ Stepped(w)) =>
              /\ pc[w] = "send" /\ pc'[w] = "receive"
              /\ call'[w] = NoCall
              /\ ~gen'[w].active
              /\ audio_buffers' = audio_buffers
              /\ buffer_sizes' = buffer_sizes
              /\ audio_metrics' = audio_metrics
         /\ (latest'.socket = w
               /\ latest'.call.outcome \in {"buffered", "flushed"}) =>
              (latest'.call.outcome = "flushed") =
                 NormalRule(get_buffer_duration(buffer_sizes, client_of[w])
                              + numel(latest'.call.data.pcm),
                            latest'.call.data.pcm)]_vars

\* the transcriber has just failed for a buffer of two fragments
WitC12_TranscriberFailed ==
    /\ latest.socket # NoSocket
    /\ RaisedAt(latest.call) = "transcribe"
    /\ Len(latest.call.held) = 2
    /\ audio_buffers[LatestClient] = << >>
    /\ pc[latest.socket] = "send"


(***************************************************************************)
(* Properties of disconnect and of the metrics                             *)
(***************************************************************************)
\* handler w leaves its receive loop: WebSocketDisconnect
Disconnects(w) == pc[w] = "receive" /\ pc'[w] = "closed"

HoldsAudio(c) == c \in DOMAIN audio_buffers /\ audio_buffers[c] # << >>

\* C13 (as claimed): when a client disconnects with audio in its buffer, no
\* flush is made (no call is started, no message is issued, the metrics do
\* not move) and its buffer and buffer-size entries are gone.
CexC13_DisconnectDiscards ==
    [][\A w \in Sockets :
         (Disconnects(w) /\ HoldsAudio(client_of[w])) =>
            /\ latest' = NoLast
            /\ call' = call
            /\ audio_metrics' = audio_metrics
            /\ client_of[w] \notin DOMAIN audio_buffers'
            /\ client_of[w] \notin DOMAIN buffer_sizes']_vars


(***************************************************************************)
(* The metrics query: GET /metrics/{client_id},                            *)
(* ConnectionManager.get_optimization_metrics.                             *)
(* Stored audio durations are sample counts (seconds * sample_rate);       *)
(* reported figures are hundredths (the code rounds to two decimals).      *)
(***************************************************************************)
\* round(num / den, 2) in hundredths, for num / den already in hundredths.
\* The operand is a binary float: at a decimal tie it lies just above or
\* just below the tie, and either neighbour can result.
Round2(num, den) ==
    LET q == num \div den
        r == num % den
    IN  IF 2 * r < den THEN {q}
        ELSE IF 2 * r > den THEN {q + 1}
        ELSE {q, q + 1}

\* samples in one hundredth of a second
SamplesPerHundredth == sample_rate \div 100

\* the structure returned for a client id without metrics
ZeroMetrics ==
    [total_audio_seconds |-> 0, processed_audio_seconds |-> 0,
     optimization_percentage |-> 0, seconds_saved |-> 0, session_duration |-> 0]

\* variant: a missing client id gets a fresh entry (setdefault)
get_optimization_metrics_setdefault(metrics, c, t) ==
    IF c \notin DOMAIN metrics
    THEN {[result |-> ZeroMetrics,
           audio_metrics |-> (c :> [total_audio_seconds |-> 0,
                                    processed_audio_seconds |-> 0,
                                    session_start_time |-> t]) @@ metrics]}
    ELSE {[result |-> ZeroMetrics, audio_metrics |-> metrics]}

\* variant: the percentage is taken of the processed audio
get_optimization_metrics_processed(metrics, c, t) ==
    IF c \notin DOMAIN metrics
    THEN {[result |-> ZeroMetrics, audio_metrics |-> metrics]}
    ELSE LET total == metrics[c].total_audio_seconds
             processed == metrics[c].processed_audio_seconds
         IN  {[result |->
                 [total_audio_seconds |-> a, processed_audio_seconds |-> b,
                  optimization_percentage |-> p, seconds_saved |-> sv,
                  session_duration |-> 100 * (t - metrics[c].session_start_time)],
               audio_metrics |-> metrics] :
                 a \in Round2(total, SamplesPerHundredth),
                 b \in Round2(processed, SamplesPerHundredth),
                 p \in (IF total > 0 THEN Round2(processed * 10000, total) ELSE {0}),
                 sv \in (IF total > 0
                         THEN Round2(total - processed, SamplesPerHundredth)
                         ELSE {0})}

\* get_optimization_metrics(client_id) called at time t: the results it can
\* return, each with the metrics dictionary afterwards
get_optimization_metrics(metrics, c, t) ==
    IF c \notin DOMAIN metrics
    THEN {[result |-> ZeroMetrics, audio_metrics |-> metrics]}
    ELSE LET total == metrics[c].total_audio_seconds
             processed == metrics[c].processed_audio_seconds
             saved == total - processed
         IN  {[result |->
                 [total_audio_seconds |-> a, processed_audio_seconds |-> b,
                  optimization_percentage |-> p, seconds_saved |-> sv,
                  session_duration |-> 100 * (t - metrics[c].session_start_time)],
               audio_metrics |-> metrics] :
                 a \in Round2(total, SamplesPerHundredth),
                 b \in Round2(processed, SamplesPerHundredth),
                 p \in (IF total > 0 THEN Round2(saved * 10000, total) ELSE {0}),
                 sv \in (IF total > 0
                         THEN Round2(saved, SamplesPerHundredth)
                         ELSE {0})}

\* stored totals and processed amounts the query is tried on, in samples:
\* 0 s, 1 s, 1.004 s, 1.005 s, 3 s, 10 s and 0 s, 0.006 s, 1 s, 4 s
MetricTotals == {0, 16000, 16064, 16080, 48000, 160000}
MetricProcessed == {0, 96, 16000, 64000}

\* latest time of a query
MaxClock == 2

MetricEntries ==
    { e \in [total_audio_seconds : MetricTotals,
             processed_audio_seconds : MetricProcessed,
             session_start_time : 0..1] :
        e.processed_audio_seconds <= e.total_audio_seconds }

MetricStores == {EmptyDict} \cup { ("a" :> e) : e \in MetricEntries }

InitMetrics ==
    /\ active_connections = EmptyDict
    /\ audio_buffers = EmptyDict
    /\ buffer_sizes = EmptyDict
    /\ audio_metrics \in MetricStores
    /\ now = 1
    /\ InitHandlers
    /\ hin = << >>
    /\ hout = << >>
    /\ InitOther

\* GET /metrics/{c}
MetricsQuery(c) ==
    /\ \E o \in get_optimization_metrics(audio_metrics, c, now) :
         /\ hout' = <<[client |-> c, at |-> now, result |-> o.result]>>
         /\ audio_metrics' = o.audio_metrics
    /\ UNCHANGED <<active_connections, audio_buffers, buffer_sizes, now,
                   handlerVars, otherVars, hin>>

\* time passes
MetricsTick ==
    /\ now < MaxClock
    /\ now' = now + 1
    /\ UNCHANGED <<active_connections, audio_buffers, buffer_sizes, audio_metrics,
                   handlerVars, harnessVars, otherVars>>

NextMetrics ==
    \/ \E c \in ClientIds : MetricsQuery(c)
    \/ MetricsTick

SpecMetrics == InitMetrics /\ [][NextMetrics]_vars


(***************************************************************************)
(* Properties of the metrics query                                         *)
(***************************************************************************)
\* C14 (as claimed): a disconnect removes the client's metrics entry with
\* its buffer, and a metrics query made afterwards returns the all-zero
\* structure.
CexC14_DisconnectClearsMetrics ==
    [][\A w \in Sockets :
         Disconnects(w) =>
            /\ client_of[w] \notin DOMAIN audio_metrics'
            /\ \A o \in get_optimization_metrics(audio_metrics', client_of[w], now') :
                 o.result = ZeroMetrics]_vars

Queried == hout' # hout /\ hout' # << >>

\* C15: a query for a client id without metrics entry returns the structure
\* with its five figures 0, and leaves the metrics dictionary as it was,
\* without an entry for that id.
ThmC15_UnknownClientZero ==
    [][(Queried /\ hout'[1].client \notin DOMAIN audio_metrics) =>
         /\ hout'[1].result.total_audio_seconds = 0
         /\ hout'[1].result.processed_audio_seconds = 0
         /\ hout'[1].result.optimization_percentage = 0
         /\ hout'[1].result.seconds_saved = 0
         /\ hout'[1].result.session_duration = 0
         /\ audio_metrics' = audio_metrics
         /\ hout'[1].client \notin DOMAIN audio_metrics']_vars

\* client b, which has no entry, was queried while client a has audio
WitC15_UnknownQueried ==
    /\ hout # << >>
    /\ hout[1].client \notin DOMAIN audio_metrics
    /\ hout[1].result = ZeroMetrics
    /\ \E c \in DOMAIN audio_metrics : audio_metrics[c].total_audio_seconds > 0

\* the stored figures of the client last queried
Stored == audio_metrics[hout[1].client]

KnownQueried == hout # << >> /\ hout[1].client \in DOMAIN audio_metrics

Distance(x, y) == IF x >= y THEN x - y ELSE y - x

CexC17_OneFlushPerClient ==
    [][/\ \A w \in Sockets :
            latest'.socket = w =>
               /\ pc[w] = "receive"
               /\ call[w] = NoCall
               /\ ~gen[w].active
       /\ \A c \in ClientIds :
            Cardinality({w \in Sockets : /\ client_of'[w] = c
                                         /\ call'[w].outcome = "flushed"}) <= 1]_vars


\* handler w took the step (a fragment that is buffered or skipped changes
\* neither pc nor call)
Acted(w) == Stepped(w) \/ latest'.socket = w

\* what dictionary d holds for c, if anything
Entry(d, c) == IF c \in DOMAIN d THEN <<d[c]>> ELSE << >>

\* C19: a step of a handler (connect, append, flush, metrics update,
\* disconnect) leaves the buffer, the buffer size and the metrics of every
\* other client id as they were, entry or no entry.
ThmC19_OtherClientsUntouched ==
    [][\A w \in Sockets :
         Acted(w) =>
            \A c \in ClientIds \ {client_of[w], client_of'[w]} :
               /\ Entry(audio_buffers', c) = Entry(audio_buffers, c)
               /\ Entry(buffer_sizes', c) = Entry(buffer_sizes, c)
               /\ Entry(audio_metrics', c) = Entry(audio_metrics, c)]_vars

\* a client has just been flushed while another client id holds audio
WitC19_FlushBesideHeldAudio ==
    /\ JustFlushed
    /\ \E c \in ClientIds \ {LatestClient} :
         /\ HoldsAudio(c)
         /\ c \in DOMAIN audio_metrics


(***************************************************************************)
(* The handlers on the event loop, with the collaborator calls as steps.   *)
(* process_audio_chunk calls vad_processor.process_audio_tensor and        *)
(* noise_processor.process_audio_tensor without await, and the transcriber *)
(* calls openai.audio.transcriptions.create without await: a handler in    *)
(* one of these calls (pc "vad", "noise", "api") holds the only thread of  *)
(* the event loop until the call returns; the other coroutines run when    *)
(* no handler is in such a call.                                           *)
(***************************************************************************)
SyncStates == {"vad", "noise", "api"}

\* no other handler holds the event loop
LoopFree(w) == \A v \in Sockets \ {w} : pc[v] \notin SyncStates

LoopConnect(w, c) == LoopFree(w) /\ Connect(w, c)

LoopDisconnect(w) == LoopFree(w) /\ Disconnect(w)

\* the handler is resumed with a message that is not flushed
LoopMalformed(w, data) == LoopFree(w) /\ ChunkMalformed(w, data)

LoopSkipped(w, data) == LoopFree(w) /\ ChunkSkipped(w, data)

LoopBuffered(w, data) == LoopFree(w) /\ ChunkBuffered(w, data)

\* the handler is resumed with a message that is flushed: it runs up to the
\* call of the VAD
LoopFlush(w, data) ==
    /\ LoopFree(w)
    /\ CanReceive(w)
    /\ Flushing(w, data)
    /\ FlushCommon(w, data)
    /\ audio_metrics' = AddMetric(audio_metrics, client_of[w], "total_audio_seconds",
                                  numel(Drained(w, data).result))
    /\ Recorded(w, FlushCall(w, data), TRUE)
    /\ pc' = [pc EXCEPT ![w] = "vad"]
    /\ gen' = gen

\* the call under way of handler w ends with record r and the handler goes
\* on to position p
LoopGoes(w, r, p) ==
    /\ call' = [call EXCEPT ![w] = r]
    /\ pc' = [pc EXCEPT ![w] = p]
    /\ latest' = NoLast
    /\ UNCHANGED <<active_connections, audio_buffers, buffer_sizes, now,
                   client_of, nrecv, accepted_samples, harnessVars, otherVars>>

\* vad_processor.process_audio_tensor returns or raises
LoopVadReturns(w) ==
    /\ pc[w] = "vad"
    /\ UNCHANGED <<audio_metrics, gen>>
    /\ \/ LoopGoes(w, [call[w] EXCEPT
                         !.raised = "vad",
                         !.sent = <<Sent(client_of[w], ErrorMsg("vad"))>>], "send")
       \/ \E m \in VadResults(numel(call[w].drained)) :
            IF m = 0
            THEN LoopGoes(w, [call[w] EXCEPT
                                !.vad = 0,
                                !.sent = <<Sent(client_of[w], NoVoiceMsg)>>], "send")
            ELSE LoopGoes(w, [call[w] EXCEPT !.vad = m], "noise")

\* noise_processor.process_audio_tensor returns or raises; with an empty
\* result the transcriber yields its error chunk without calling the API
LoopNoiseReturns(w) ==
    /\ pc[w] = "noise"
    /\ gen' = gen
    /\ \/ /\ LoopGoes(w, [call[w] EXCEPT
                            !.raised = "noise",
                            !.sent = <<Sent(client_of[w], ErrorMsg("noise"))>>], "send")
          /\ audio_metrics' = audio_metrics
       \/ \E d \in NoiseResults(call[w].vad) :
            /\ audio_metrics' = AddMetric(audio_metrics, client_of[w],
                                          "processed_audio_seconds", d)
            /\ IF d = 0
               THEN LoopGoes(w, [call[w] EXCEPT
                                   !.denoised = 0, !.transcribed = 1,
                                   !.results = transcribe_first(0, 0),
                                   !.sent = <<Sent(client_of[w],
                                                   ChunkMessage(transcribe_first(0, 0)[1]))>>],
                             "send")
               ELSE LoopGoes(w, [call[w] EXCEPT !.denoised = d, !.transcribed = 1],
                             "api")

\* openai.audio.transcriptions.create returns or raises: the generator
\* yields its first chunk, which is sent, or nothing
LoopApiReturns(w) ==
    /\ pc[w] = "api"
    /\ audio_metrics' = audio_metrics
    /\ \E tr \in TranscriberOutcomes :
         LET first == transcribe_first(call[w].denoised, tr)
             words == IF tr < 0 THEN << >> ELSE Words(tr)
         IN  IF first = << >>
             THEN /\ LoopGoes(w, NoCall, "receive")
                  /\ gen' = [gen EXCEPT ![w] = NoGen]
             ELSE /\ LoopGoes(w, [call[w] EXCEPT
                                    !.words = words, !.results = first,
                                    !.sent = <<Sent(client_of[w],
                                                    ChunkMessage(first[1]))>>],
                              "send")
                  /\ gen' = [gen EXCEPT ![w] =
                        IF LeavesLoop(first[1]) THEN NoGen
                        ELSE [active |-> TRUE, words |-> words, i |-> 1]]

LoopReturn(w) == LoopFree(w) /\ Return(w)

LoopNextChunk(w) == LoopFree(w) /\ NextChunk(w)

NextLoop ==
    \/ \E w \in Sockets, c \in ClientIds : LoopConnect(w, c)
    \/ \E w \in Sockets : LoopDisconnect(w)
    \/ \E w \in Sockets, data \in Frames : Budget /\ LoopMalformed(w, data)
    \/ \E w \in Sockets, data \in Frames : Budget /\ LoopSkipped(w, data)
    \/ \E w \in Sockets, data \in Frames : Budget /\ LoopBuffered(w, data)
    \/ \E w \in Sockets, data \in Frames : Budget /\ LoopFlush(w, data)
    \/ \E w \in Sockets : LoopVadReturns(w)
    \/ \E w \in Sockets : LoopNoiseReturns(w)
    \/ \E w \in Sockets : LoopApiReturns(w)
    \/ \E w \in Sockets : LoopReturn(w)
    \/ \E w \in Sockets : LoopNextChunk(w)

SpecLoop == Init /\ [][NextLoop]_vars

\* handler w is inside a collaborator call
InCollaborator(w) == pc[w] \in SyncStates

\* a fragment has arrived for handler w, which waits in receive_bytes()
FragmentWaits(w) == pc[w] = "receive" /\ Budget

\* C18 (as claimed): whenever a handler is inside its VAD, noise-reduction
\* or transcription call, every other handler that waits for a fragment can
\* receive one and buffer it.
CexC18_CallsDoNotBlock ==
    \A a \in Sockets : \A b \in Sockets \ {a} :
        (InCollaborator(a) /\ FragmentWaits(b)) =>
            ENABLED (\E data \in Frames : LoopBuffered(b, data))


(***************************************************************************)
(* murmur-server: root(ws, api_key), one connection                        *)
(***************************************************************************)
ApiKeys == {"known", "unknown"}

\* redis.get(f"key:{api_key_hash}"): the user id stored for the key, or None
redis_get(k) == IF k = "known" THEN "u1" ELSE NoUser

\* variant: the lookup result is not tested
NoUserId_never(u) == FALSE

\* `if not user_id`
NoUserId(u) == u = NoUser

\* ws.close(code) on a websocket that is connecting or connected
ws_close(w, code) == [application_state |-> "disconnected", close_code |-> code]

\* ws.accept() succeeds only on a websocket that is still connecting; once a
\* close message has been sent, the WebSocket's send raises RuntimeError
ws_accept_ok(w) == w.application_state = "connecting"

\* longest list buff the connection is driven to
MaxBuff == 3

MurmurFrames ==
    { Frame(t, 0) : t \in {Tone3s, Tone1s, Tone15, Silence15, Silence1s} }
      \cup { Frame(Tiny, 3) }

\* lines 83-87: the lookup, and the close when it finds no user id; the
\* function goes on to line 89 in both cases
RootLookup(k) ==
    /\ root_pc = "start"
    /\ user_id' = redis_get(k)
    /\ ws' = IF NoUserId(redis_get(k)) THEN ws_close(ws, 1008) ELSE ws
    /\ root_pc' = "accept"
    /\ UNCHANGED <<root_buff, usage, demoVars, managerVars, handlerVars, harnessVars>>

\* lines 89-91: await ws.accept(); buff = [].  An exception of accept is
\* raised outside the try and ends root
RootAccept ==
    /\ root_pc = "accept"
    /\ IF ws_accept_ok(ws)
       THEN /\ ws' = [ws EXCEPT !.application_state = "connected"]
            /\ root_buff' = << >>
            /\ root_pc' = "receive"
       ELSE /\ root_pc' = "raised"
            /\ UNCHANGED <<ws, root_buff>>
    /\ UNCHANGED <<user_id, usage, demoVars, managerVars, handlerVars, harnessVars>>

CanRootReceive == root_pc = "receive" /\ Len(root_buff) < MaxBuff

\* np.frombuffer raises: except Exception, the handler ends
RootDecodeRaises(data) ==
    /\ CanRootReceive
    /\ ~frombuffer_ok(data)
    /\ root_pc' = "ended"
    /\ UNCHANGED <<ws, user_id, root_buff, usage, demoVars, managerVars, handlerVars,
                   harnessVars>>

\* buff.append(...); should_flush is False: continue
RootBuffered(data) ==
    /\ CanRootReceive
    /\ frombuffer_ok(data)
    /\ ~should_flush(Append(root_buff, frombuffer(data)))
    /\ root_buff' = Append(root_buff, frombuffer(data))
    /\ UNCHANGED <<root_pc, ws, user_id, usage, demoVars, managerVars, handlerVars,
                   harnessVars>>

\* buff.append(...); should_flush is True: the usage is recorded, the VAD and
\* the transcriber run (the VAD may raise, which ends the handler), the
\* message is built and ws.send_json(...) is called without await; buff is
\* left as it is
RootFlush(data) ==
    /\ CanRootReceive
    /\ frombuffer_ok(data)
    /\ should_flush(Append(root_buff, frombuffer(data)))
    /\ root_buff' = Append(root_buff, frombuffer(data))
    /\ usage' = [usage EXCEPT ![user_id] = @ + get_buffer_duration_s(root_buff')]
    /\ root_pc' \in {"receive", "ended"}
    /\ UNCHANGED <<ws, user_id, demoVars, managerVars, handlerVars, harnessVars>>

\* receive_bytes raises WebSocketDisconnect: pass
RootDisconnect ==
    /\ root_pc = "receive"
    /\ root_pc' = "ended"
    /\ UNCHANGED <<ws, user_id, root_buff, usage, demoVars, managerVars, handlerVars,
                   harnessVars>>

NextMurmur ==
    \/ \E k \in ApiKeys : RootLookup(k)
    \/ RootAccept
    \/ \E data \in MurmurFrames : RootDecodeRaises(data)
    \/ \E data \in MurmurFrames : RootBuffered(data)
    \/ \E data \in MurmurFrames : RootFlush(data)
    \/ RootDisconnect

SpecMurmur == Init /\ [][NextMurmur]_vars

LookedUp == root_pc # "start"

\* C20: when the lookup finds no user id the connection is closed with code
\* 1008 and never accepted: the handler never reaches its receive loop, no
\* fragment is buffered and no usage is recorded.
ThmC20_NoUserNoSession ==
    (LookedUp /\ user_id = NoUser) =>
        /\ ws = [application_state |-> "disconnected", close_code |-> 1008]
        /\ root_pc \in {"accept", "raised"}
        /\ root_buff = << >>
        /\ \A u \in DOMAIN usage : usage[u] = 0

\* the unknown key has been refused and root() has ended
WitC20_Refused ==
    /\ user_id = NoUser
    /\ root_pc = "raised"
    /\ ws.close_code = 1008

(***************************************************************************)
(* demo-server: upgrade_murmur (the relay) and upgrade_control             *)
(***************************************************************************)
\* constants.SAMPLE_RATE_HZ
SAMPLE_RATE_HZ == 16000
MAX_BUFFER_SIZE_S == 5

\* the status of a message of the upstream service
UpstreamKinds == {"success", "no_voice_detected", "error"}

\* number of messages delivered to a client after which the upstream service
\* sends no more on that connection
MaxSent == 1

\* datetime.now(): every reading is later than the one before
datetime_now == clock
Later == clock + 1

\* len(data) of the binary messages a client sends
DemoFrames == {32000, 80000, 32002}

\* metrics[client_id]: the defaultdict makes a SessionMetric() for a new key
metrics_getitem(c) == demo_metrics \cup {c}

\* metrics[client_id].murmur and .control: SessionMetric has no annotated
\* field, so an instance has no attribute of its own and the lookup finds the
\* class attribute
SessionMetric_getattr(c, service) == SessionMetric[service]

\* get_buffer_size_s(buff) >= MAX_BUFFER_SIZE_S, where get_buffer_size_s is
\* len(buff) / SAMPLE_RATE_HZ
BufferSizeReached(len) == len >= MAX_BUFFER_SIZE_S * SAMPLE_RATE_HZ

\* get_transcript(buff): np.frombuffer raises ValueError on a length that is
\* not a multiple of 4; otherwise buff is rebound to the bytes of tobytes()
\* and buff.size raises AttributeError
get_transcript(len) ==
    IF len % FLOAT32_BYTES # 0 THEN "ValueError" ELSE "AttributeError"

\* the client closes its side of the websocket
ClientCloses(s) ==
    /\ demo_pc[s] \notin {"idle", "ended", "raised"}
    /\ client_ws[s] = "open"
    /\ client_ws' = [client_ws EXCEPT ![s] = "closed"]
    /\ UNCHANGED <<demo_metrics, SessionMetric, buffs, clock, demo_pc, demo_path,
                   demo_client, murmur_ws, handle_audio, handle_transcript,
                   transcript, sent>>
    /\ UNCHANGED <<managerVars, handlerVars, harnessVars, murmurVars>>

\* lines 63-68: accept, connected_time, then websockets.connect is awaited
UpgradeMurmur(s, c) ==
    /\ demo_pc[s] = "idle"
    /\ demo_pc' = [demo_pc EXCEPT ![s] = "connect"]
    /\ demo_path' = [demo_path EXCEPT ![s] = "murmur"]
    /\ demo_client' = [demo_client EXCEPT ![s] = c]
    /\ demo_metrics' = metrics_getitem(c)
    /\ SessionMetric' =
         [SessionMetric EXCEPT !.murmur.connected_time = datetime_now]
    /\ clock' = Later
    /\ UNCHANGED <<buffs, client_ws, murmur_ws, handle_audio,
                   handle_transcript, transcript, sent>>
    /\ UNCHANGED <<managerVars, handlerVars, harnessVars, murmurVars>>

\* websockets.connect succeeds: gather starts the two tasks
UpstreamConnected(s) ==
    /\ demo_pc[s] = "connect"
    /\ demo_pc' = [demo_pc EXCEPT ![s] = "gather"]
    /\ murmur_ws' = [murmur_ws EXCEPT ![s] = "open"]
    /\ handle_audio' = [handle_audio EXCEPT ![s] = "running"]
    /\ handle_transcript' = [handle_transcript EXCEPT ![s] = "running"]
    /\ UNCHANGED <<demo_metrics, SessionMetric, buffs, clock, demo_path,
                   demo_client, client_ws, transcript, sent>>
    /\ UNCHANGED <<managerVars, handlerVars, harnessVars, murmurVars>>

\* websockets.connect raises: the exception is no WebSocketDisconnect and
\* leaves upgrade_murmur, and the server closes the client's connection
UpstreamRefused(s) ==
    /\ demo_pc[s] = "connect"
    /\ demo_pc' = [demo_pc EXCEPT ![s] = "raised"]
    /\ client_ws' = [client_ws EXCEPT ![s] = "closed"]
    /\ UNCHANGED <<demo_metrics, SessionMetric, buffs, clock, demo_path,
                   demo_client, murmur_ws, handle_audio, handle_transcript,
                   transcript, sent>>
    /\ UNCHANGED <<managerVars, handlerVars, harnessVars, murmurVars>>

\* handle_audio: ws.iter_bytes() yields a message of the client, and
\* murmur_ws.send(data) is awaited
AudioReceived(s) ==
    /\ handle_audio[s] = "running"
    /\ client_ws[s] = "open"
    /\ handle_audio' = [handle_audio EXCEPT ![s] = "sending"]
    /\ UNCHANGED <<demo_metrics, SessionMetric, buffs, clock, demo_pc, demo_path,
                   demo_client, client_ws, murmur_ws, handle_transcript,
                   transcript, sent>>
    /\ UNCHANGED <<managerVars, handlerVars, harnessVars, murmurVars>>

\* handle_audio: murmur_ws.send returns, or raises ConnectionClosed on a
\* closed upstream connection
AudioSent(s) ==
    /\ handle_audio[s] = "sending"
    /\ handle_audio' =
         [handle_audio EXCEPT
            ![s] = IF murmur_ws[s] = "open" THEN "running" ELSE "raised"]
    /\ UNCHANGED <<demo_metrics, SessionMetric, buffs, clock, demo_pc, demo_path,
                   demo_client, client_ws, murmur_ws, handle_transcript,
                   transcript, sent>>
    /\ UNCHANGED <<managerVars, handlerVars, harnessVars, murmurVars>>

\* handle_audio: the client has closed; iter_bytes swallows the
\* WebSocketDisconnect and the task returns
AudioEnds(s) ==
    /\ handle_audio[s] = "running"
    /\ client_ws[s] = "closed"
    /\ handle_audio' = [handle_audio EXCEPT ![s] = "done"]
    /\ UNCHANGED <<demo_metrics, SessionMetric, buffs, clock, demo_pc, demo_path,
                   demo_client, client_ws, murmur_ws, handle_transcript,
                   transcript, sent>>
    /\ UNCHANGED <<managerVars, handlerVars, harnessVars, murmurVars>>

\* the upstream service closes murmur_ws, normally or with an error
UpstreamCloses(s, how) ==
    /\ murmur_ws[s] = "open"
    /\ demo_pc[s] = "gather"
    /\ murmur_ws' = [murmur_ws EXCEPT ![s] = how]
    /\ UNCHANGED <<demo_metrics, SessionMetric, buffs, clock, demo_pc, demo_path,
                   demo_client, client_ws, handle_audio, handle_transcript,
                   transcript, sent>>
    /\ UNCHANGED <<managerVars, handlerVars, harnessVars, murmurVars>>

\* handle_transcript, lines 74-78: a message of kind k arrives from upstream;
\* first_response_time is set if it is None, then ws.send_text is awaited
TranscriptReceived(s, k) ==
    /\ handle_transcript[s] = "running"
    /\ murmur_ws[s] = "open"
    /\ Cardinality(sent[s]) < MaxSent
    /\ demo_metrics' = metrics_getitem(demo_client[s])
    /\ SessionMetric' =
         IF SessionMetric_getattr(demo_client[s], "murmur").first_response_time
              = NoTime
         THEN [SessionMetric EXCEPT !.murmur.first_response_time = datetime_now]
         ELSE SessionMetric
    /\ clock' =
         IF SessionMetric_getattr(demo_client[s], "murmur").first_response_time
              = NoTime
         THEN Later ELSE clock
    /\ transcript' = [transcript EXCEPT ![s] = k]
    /\ handle_transcript' = [handle_transcript EXCEPT ![s] = "sending"]
    /\ UNCHANGED <<buffs, demo_pc, demo_path, demo_client, client_ws,
                   murmur_ws, handle_audio, sent>>
    /\ UNCHANGED <<managerVars, handlerVars, harnessVars, murmurVars>>

\* handle_transcript: ws.send_text delivers the message to the client
TranscriptSent(s) ==
    /\ handle_transcript[s] = "sending"
    /\ client_ws[s] = "open"
    /\ sent' = [sent EXCEPT ![s] = @ \cup {transcript[s]}]
    /\ transcript' = [transcript EXCEPT ![s] = ""]
    /\ handle_transcript' = [handle_transcript EXCEPT ![s] = "running"]
    /\ UNCHANGED <<demo_metrics, SessionMetric, buffs, clock, demo_pc, demo_path,
                   demo_client, client_ws, murmur_ws, handle_audio>>
    /\ UNCHANGED <<managerVars, handlerVars, harnessVars, murmurVars>>

\* handle_transcript: ws.send_text after the client has closed; the server
\* either drops the message or fails the send, which raises
\* WebSocketDisconnect
TranscriptUndelivered(s, raises) ==
    /\ handle_transcript[s] = "sending"
    /\ client_ws[s] = "closed"
    /\ transcript' = [transcript EXCEPT ![s] = ""]
    /\ handle_transcript' =
         [handle_transcript EXCEPT
            ![s] = IF raises THEN "disconnect" ELSE "running"]
    /\ UNCHANGED <<demo_metrics, SessionMetric, buffs, clock, demo_pc, demo_path,
                   demo_client, client_ws, murmur_ws, handle_audio, sent>>
    /\ UNCHANGED <<managerVars, handlerVars, harnessVars, murmurVars>>

\* handle_transcript: the iteration over murmur_ws ends when the connection
\* was closed normally and raises ConnectionClosedError otherwise
TranscriptEnds(s) ==
    /\ handle_transcript[s] = "running"
    /\ murmur_ws[s] \in {"closed", "closed_error"}
    /\ handle_transcript' =
         [handle_transcript EXCEPT
            ![s] = IF murmur_ws[s] = "closed" THEN "done" ELSE "raised"]
    /\ UNCHANGED <<demo_metrics, SessionMetric, buffs, clock, demo_pc, demo_path,
                   demo_client, client_ws, murmur_ws, handle_audio,
                   transcript, sent>>
    /\ UNCHANGED <<managerVars, handlerVars, harnessVars, murmurVars>>

TaskOver(t) == t \in {"done", "raised", "disconnect"}
TaskRaised(t) == t \in {"raised", "disconnect"}

\* line 80: gather returns when both tasks have returned; the async with
\* closes murmur_ws, upgrade_murmur returns and the server closes the
\* client's connection
GatherReturns(s) ==
    /\ demo_pc[s] = "gather"
    /\ handle_audio[s] = "done"
    /\ handle_transcript[s] = "done"
    /\ demo_pc' = [demo_pc EXCEPT ![s] = "ended"]
    /\ murmur_ws' = [murmur_ws EXCEPT ![s] = IF @ = "open" THEN "closed" ELSE @]
    /\ client_ws' = [client_ws EXCEPT ![s] = "closed"]
    /\ UNCHANGED <<demo_metrics, SessionMetric, buffs, clock, demo_path,
                   demo_client, handle_audio, handle_transcript, transcript,
                   sent>>
    /\ UNCHANGED <<managerVars, handlerVars, harnessVars, murmurVars>>

\* lines 80-83: gather passes on the first exception of a task without
\* cancelling the other task; the async with closes murmur_ws; a
\* WebSocketDisconnect is caught, any other exception leaves upgrade_murmur;
\* in both cases the server closes the client's connection
GatherRaises(s) ==
    /\ demo_pc[s] = "gather"
    /\ TaskRaised(handle_audio[s]) \/ TaskRaised(handle_transcript[s])
    /\ demo_pc' =
         [demo_pc EXCEPT
            ![s] = IF handle_transcript[s] = "disconnect"
                      /\ ~TaskRaised(handle_audio[s])
                   THEN "ended" ELSE "raised"]
    /\ murmur_ws' = [murmur_ws EXCEPT ![s] = IF @ = "open" THEN "closed" ELSE @]
    /\ client_ws' = [client_ws EXCEPT ![s] = "closed"]
    /\ UNCHANGED <<demo_metrics, SessionMetric, buffs, clock, demo_path,
                   demo_client, handle_audio, handle_transcript, transcript,
                   sent>>
    /\ UNCHANGED <<managerVars, handlerVars, harnessVars, murmurVars>>

\* lines 88-90: accept, connected_time, then receive_bytes is awaited
UpgradeControl(s, c) ==
    /\ demo_pc[s] = "idle"
    /\ demo_pc' = [demo_pc EXCEPT ![s] = "receive"]
    /\ demo_path' = [demo_path EXCEPT ![s] = "control"]
    /\ demo_client' = [demo_client EXCEPT ![s] = c]
    /\ demo_metrics' = metrics_getitem(c)
    /\ SessionMetric' =
         [SessionMetric EXCEPT !.control.connected_time = datetime_now]
    /\ clock' = Later
    /\ UNCHANGED <<buffs, client_ws, murmur_ws, handle_audio,
                   handle_transcript, transcript, sent>>
    /\ UNCHANGED <<managerVars, handlerVars, harnessVars, murmurVars>>

\* lines 94-97: the message is appended and the buffer is below the maximum
ControlBuffered(s, len) ==
    /\ demo_pc[s] = "receive"
    /\ client_ws[s] = "open"
    /\ ~BufferSizeReached(buffs[demo_client[s]] + len)
    /\ buffs' = [buffs EXCEPT ![demo_client[s]] = @ + len]
    /\ UNCHANGED <<demo_metrics, SessionMetric, clock, demo_pc, demo_path,
                   demo_client, client_ws, murmur_ws, handle_audio,
                   handle_transcript, transcript, sent>>
    /\ UNCHANGED <<managerVars, handlerVars, harnessVars, murmurVars>>

\* lines 94-98: the message is appended, the buffer has reached the maximum
\* and get_transcript is called; its exception is no WebSocketDisconnect and
\* leaves upgrade_control before lines 99-110, and the server closes the
\* client's connection
ControlFlush(s, len) ==
    /\ demo_pc[s] = "receive"
    /\ client_ws[s] = "open"
    /\ BufferSizeReached(buffs[demo_client[s]] + len)
    /\ buffs' = [buffs EXCEPT ![demo_client[s]] = @ + len]
    /\ get_transcript(buffs'[demo_client[s]]) \in {"ValueError", "AttributeError"}
    /\ demo_pc' = [demo_pc EXCEPT ![s] = "raised"]
    /\ client_ws' = [client_ws EXCEPT ![s] = "closed"]
    /\ UNCHANGED <<demo_metrics, SessionMetric, clock, demo_path, demo_client,
                   murmur_ws, handle_audio, handle_transcript, transcript,
                   sent>>
    /\ UNCHANGED <<managerVars, handlerVars, harnessVars, murmurVars>>

\* lines 112-113: receive_bytes raises WebSocketDisconnect
ControlDisconnect(s) ==
    /\ demo_pc[s] = "receive"
    /\ client_ws[s] = "closed"
    /\ demo_pc' = [demo_pc EXCEPT ![s] = "ended"]
    /\ UNCHANGED <<demo_metrics, SessionMetric, buffs, clock, demo_path,
                   demo_client, client_ws, murmur_ws, handle_audio,
                   handle_transcript, transcript, sent>>
    /\ UNCHANGED <<managerVars, handlerVars, harnessVars, murmurVars>>

\* the steps the demo-server takes by itself
DemoRuns(s) ==
    \/ AudioSent(s)
    \/ AudioEnds(s)
    \/ TranscriptSent(s)
    \/ \E raises \in BOOLEAN : TranscriptUndelivered(s, raises)
    \/ TranscriptEnds(s)
    \/ GatherReturns(s)
    \/ GatherRaises(s)
    \/ ControlDisconnect(s)

NextDemo ==
    \/ \E s \in DemoSockets : \E c \in ClientIds : UpgradeMurmur(s, c)
    \/ \E s \in DemoSockets : \E c \in ClientIds : UpgradeControl(s, c)
    \/ \E s \in DemoSockets : ClientCloses(s)
    \/ \E s \in DemoSockets : UpstreamConnected(s)
    \/ \E s \in DemoSockets : UpstreamRefused(s)
    \/ \E s \in DemoSockets : AudioReceived(s)
    \/ \E s \in DemoSockets : \E how \in {"closed", "closed_error"} :
          UpstreamCloses(s, how)
    \/ \E s \in DemoSockets : \E k \in UpstreamKinds : TranscriptReceived(s, k)
    \/ \E s \in DemoSockets : \E len \in DemoFrames : ControlBuffered(s, len)
    \/ \E s \in DemoSockets : \E len \in DemoFrames : ControlFlush(s, len)
    \/ \E s \in DemoSockets : AudioSent(s)
    \/ \E s \in DemoSockets : AudioEnds(s)
    \/ \E s \in DemoSockets : TranscriptSent(s)
    \/ \E s \in DemoSockets : \E raises \in BOOLEAN :
          TranscriptUndelivered(s, raises)
    \/ \E s \in DemoSockets : TranscriptEnds(s)
    \/ \E s \in DemoSockets : GatherReturns(s)
    \/ \E s \in DemoSockets : GatherRaises(s)
    \/ \E s \in DemoSockets : ControlDisconnect(s)

SpecDemo == Init /\ [][NextDemo]_vars

(***************************************************************************)
(* One relay connection, with the event loop running every task that can   *)
(* run                                                                     *)
(***************************************************************************)
RelaySocket == 1

NextRelay ==
    \/ \E c \in ClientIds : UpgradeMurmur(RelaySocket, c)
    \/ ClientCloses(RelaySocket)
    \/ UpstreamConnected(RelaySocket)
    \/ UpstreamRefused(RelaySocket)
    \/ AudioReceived(RelaySocket)
    \/ \E how \in {"closed", "closed_error"} : UpstreamCloses(RelaySocket, how)
    \/ \E k \in UpstreamKinds : TranscriptReceived(RelaySocket, k)
    \/ AudioSent(RelaySocket)
    \/ AudioEnds(RelaySocket)
    \/ TranscriptSent(RelaySocket)
    \/ \E raises \in BOOLEAN : TranscriptUndelivered(RelaySocket, raises)
    \/ TranscriptEnds(RelaySocket)
    \/ GatherReturns(RelaySocket)
    \/ GatherRaises(RelaySocket)

SpecRelay == Init /\ [][NextRelay]_vars /\ WF_vars(DemoRuns(RelaySocket))

\* the two tasks have been started and one side of the relay has closed
SideClosed(s) ==
    /\ handle_audio[s] # "none"
    /\ \/ client_ws[s] = "closed"
       \/ murmur_ws[s] \in {"closed", "closed_error"}

BothOver(s) == TaskOver(handle_audio[s]) /\ TaskOver(handle_transcript[s])

\* C21: once either side of the relay has closed, both forwarding tasks
\* terminate: handle_audio and handle_transcript are eventually both over.
CexC21_BothTasksTerminate == SideClosed(RelaySocket) ~> BothOver(RelaySocket)

(***************************************************************************)
(* Properties of the demo-server's metrics                                 *)
(***************************************************************************)
Services == {"murmur", "control"}

\* the first-response time recorded for client c and a service
FirstResponse(c, service) ==
    SessionMetric_getattr(c, service).first_response_time

\* a non-empty transcript has been delivered to client c on a connection of
\* the service
TranscriptDelivered(c, service) ==
    \E s \in DemoSockets :
        /\ demo_client[s] = c
        /\ demo_path[s] = service
        /\ "success" \in sent[s]

\* C22: a client's first-response time is unset until a non-empty transcript
\* has been delivered to that client (no_voice_detected and error messages do
\* not set it), and once set it never changes.
CexC22_FirstResponseOnTranscript ==
    /\ [](\A c \in demo_metrics : \A service \in Services :
            FirstResponse(c, service) # NoTime =>
                TranscriptDelivered(c, service))
    /\ [][\A c \in demo_metrics : \A service \in Services :
            FirstResponse(c, service) # NoTime =>
                FirstResponse(c, service)' = FirstResponse(c, service)]_vars

(***************************************************************************)
(* Backend: connections that share a client id                             *)
(***************************************************************************)
Registered(c) == c \in DOMAIN active_connections

\* C28: in every state between the steps of the handlers (so whenever the
\* handling of a fragment is over) the buffered duration of every client id
\* is strictly below BUFFER_MAX_SECONDS, by its size entry and by the
\* tensors held: a buffer that reached the maximum has been drained.
ThmC28_BufferBelowCap ==
    /\ \A c \in DOMAIN buffer_sizes :
           ~AtLeast(get_buffer_duration(buffer_sizes, c), BUFFER_MAX_SECONDS)
    /\ \A c \in DOMAIN audio_buffers :
           ~AtLeast(SumNumel(audio_buffers[c]), BUFFER_MAX_SECONDS)

\* a fragment whose tail is not silent has just brought a buffer to the
\* maximum, and the buffer is empty
WitC28_DrainedAtCap ==
    /\ JustFlushed
    /\ AtLeast(SumNumel(latest.call.held), BUFFER_MAX_SECONDS)
    /\ latest.call.held[Len(latest.call.held)] = Tone3s
    /\ audio_buffers[LatestClient] = << >>
    /\ buffer_sizes[LatestClient] = 0

InLoop(w) == pc[w] \in {"receive", "send"}

\* C27 (as claimed): while the handler of a websocket is in its receive loop
\* under client id c, active_connections[c] is that websocket, c has buffer,
\* size and metrics entries, and every message of its calls goes to it,
\* whatever other connections under the same id do.
CexC27_HandlerOwnsRegistration ==
    \A w \in Sockets :
        InLoop(w) =>
            /\ Registered(client_of[w])
            /\ active_connections[client_of[w]] = w
            /\ client_of[w] \in DOMAIN audio_buffers
            /\ client_of[w] \in DOMAIN buffer_sizes
            /\ client_of[w] \in DOMAIN audio_metrics
            /\ \A i \in DOMAIN call[w].sent : call[w].sent[i].to = w

\* C23: a connect for a client id that is already registered replaces the
\* session: right after it the id's buffer is empty with size 0, its metrics
\* are zero with a session start time later than the one before, and the
\* registered websocket is the new one, whose handler enters its receive loop.
ThmC23_ConnectReplaces ==
    [][\A w \in Sockets : \A c \in ClientIds :
         (Connect(w, c) /\ Registered(c)) =>
            /\ active_connections'[c] = w
            /\ audio_buffers'[c] = << >>
            /\ buffer_sizes'[c] = 0
            /\ audio_metrics'[c].total_audio_seconds = 0
            /\ audio_metrics'[c].processed_audio_seconds = 0
            /\ audio_metrics'[c].session_start_time = now'
            /\ audio_metrics'[c].session_start_time
                 > audio_metrics[c].session_start_time
            /\ pc'[w] = "receive"]_vars

\* a second connection has just replaced the session of an id whose first
\* connection, still in its receive loop, had received a fragment
WitC23_Replaced ==
    \E c \in ClientIds : \E v \in Sockets : \E w \in Sockets :
        /\ v # w
        /\ pc[v] = "receive" /\ client_of[v] = c
        /\ pc[w] = "receive" /\ client_of[w] = c
        /\ active_connections[c] = w
        /\ nrecv > 0
        /\ audio_buffers[c] = << >>
        /\ buffer_sizes[c] = 0
        /\ audio_metrics[c].session_start_time = now

\* a step of the handler of connection s
DemoHandles(s) ==
    \/ \E c \in ClientIds : UpgradeMurmur(s, c)
    \/ \E c \in ClientIds : UpgradeControl(s, c)
    \/ UpstreamConnected(s)
    \/ UpstreamRefused(s)
    \/ AudioReceived(s)
    \/ \E k \in UpstreamKinds : TranscriptReceived(s, k)
    \/ \E len \in DemoFrames : ControlBuffered(s, len)
    \/ \E len \in DemoFrames : ControlFlush(s, len)
    \/ DemoRuns(s)

\* what is recorded for client c: the two ServiceMetric objects reached
\* through metrics[c]
MetricsOf(c) == [service \in Services |-> SessionMetric_getattr(c, service)]

\* C25: each client id has its own metrics record: a step of the handler of
\* a connection of client A (a connect, a first response, a flush) changes
\* nothing that is recorded for another client B.
CexC25_OwnMetricsRecord ==
    [][\A s \in DemoSockets : \A b \in demo_metrics :
         (DemoHandles(s) /\ demo_client'[s] # b) =>
            MetricsOf(b)' = MetricsOf(b)]_vars

\* the audio in a buffer of len bytes lasts MAX_BUFFER_SIZE_S or more: its
\* samples are 32-bit floats
FiveSecondsOfAudio(len) ==
    len \div FLOAT32_BYTES >= MAX_BUFFER_SIZE_S * SAMPLE_RATE_HZ

\* C26: in the control path a flush (the transcription call and the reset of
\* the buffer) happens exactly when the audio accumulated since the last
\* flush reaches 5.0 s, the duration being bytes / 4 / sample rate.
CexC26_FlushAtFiveSeconds ==
    [][\A s \in DemoSockets : \A len \in DemoFrames :
         /\ ControlFlush(s, len) =>
               /\ FiveSecondsOfAudio(buffs[demo_client[s]] + len)
               /\ buffs'[demo_client[s]] = 0
         /\ ControlBuffered(s, len) =>
               ~FiveSecondsOfAudio(buffs[demo_client[s]] + len)]_vars

(***************************************************************************)
(* murmur-server: the buffer and the usage over one connection             *)
(***************************************************************************)
RootFlushes == \E data \in MurmurFrames : RootFlush(data)

\* C24: a flush of the murmur-server handler drains the buffer: after the
\* flush the list buff is empty, so that the next flush holds only fragments
\* received since.
CexC24_FlushDrains == [][RootFlushes => root_buff' = << >>]_vars

\* every fragment received on the connection so far: buff is only appended to
Received == root_buff

\* C30: over one connection the usage added for the user equals the duration
\* of the fragments flushed, every received sample counted at most once: the
\* usage never exceeds the duration received, and right after a flush, which
\* takes all that is buffered, it equals the duration received so far.
CexC30_UsageCountsOnce ==
    /\ [](\A u \in DOMAIN usage : usage[u] <= get_buffer_duration_s(Received))
    /\ [][RootFlushes =>
            usage'[user_id] = get_buffer_duration_s(Received')]_vars

(***************************************************************************)
(* Backend: what a flush emits, and whether buffered audio is flushed      *)
(***************************************************************************)
\* the messages ms are what the claim allows for one flush of the handler on
\* websocket w: one no_voice_detected message, or one error message, or
\* success messages of which the last is flagged final; all sent to w
TerminalEmission(ms, w) ==
    /\ ms # << >>
    /\ \A i \in DOMAIN ms : ms[i].to = w
    /\ \/ Len(ms) = 1 /\ ms[1].msg.status \in {"no_voice_detected", "error"}
       \/ /\ \A i \in DOMAIN ms : ms[i].msg.status = "success"
          /\ ms[Len(ms)].msg.is_final

\* the flush of the handler on w is over with this step, in the step that
\* started it (no message was awaited)
FlushOverAtOnce(w) ==
    /\ latest'.socket = w
    /\ latest'.call.outcome = "flushed"
    /\ call'[w] = NoCall

\* the flush of the handler on w is over with this step, after its last send
FlushOverAfterSend(w) ==
    /\ call[w].outcome = "flushed"
    /\ call'[w] = NoCall

\* C31 (as claimed): every flush ends with a terminal message to the client:
\* when a flush is over it has sent one no_voice_detected message, or one
\* error message, or success messages the last of which has is_final true,
\* also when the transcription text is empty.
CexC31_FlushEndsWithMessage ==
    [][\A w \in Sockets :
         /\ FlushOverAtOnce(w) => TerminalEmission(latest'.call.sent, w)
         /\ FlushOverAfterSend(w) => TerminalEmission(call[w].sent, w)]_vars

(***************************************************************************)
(* A stream: the scenario client connects on the scenario websocket, does  *)
(* not disconnect and keeps sending valid fragments of one second or more, *)
(* the collaborators return; other connections come and go                 *)
(***************************************************************************)
\* number of fragments of the stream
MaxStream == 6

StreamFrames == { Frame(t, 0) : t \in {Tone1s, Tone3s, Silence15} }

StreamBudget == nrecv < MaxStream

\* the handler of the scenario websocket receives the next fragment
StreamReceive ==
    \E data \in StreamFrames :
        /\ StreamBudget
        /\ \/ ChunkBuffered(ScenarioSocket, data)
           \/ FlushNoVoice(ScenarioSocket, data)
           \/ FlushTranscribe(ScenarioSocket, data)

\* the handler of the scenario websocket is resumed after a send
StreamResume == Return(ScenarioSocket) \/ NextChunk(ScenarioSocket)

NextStream ==
    \/ Connect(ScenarioSocket, ScenarioClient)
    \/ \E w \in OtherSockets, c \in ClientIds : Connect(w, c)
    \/ \E w \in OtherSockets : Disconnect(w)
    \/ \E data \in StreamFrames : StreamBudget /\ ChunkBuffered(ScenarioSocket, data)
    \/ \E data \in StreamFrames : StreamBudget /\ FlushNoVoice(ScenarioSocket, data)
    \/ \E data \in StreamFrames : StreamBudget /\ FlushTranscribe(ScenarioSocket, data)
    \/ Return(ScenarioSocket)
    \/ NextChunk(ScenarioSocket)

\* the client keeps sending and the event loop resumes the handler
SpecStream ==
    /\ Init
    /\ [][NextStream]_vars
    /\ WF_vars(StreamReceive)
    /\ WF_vars(StreamResume)

\* the fragments the stream still has will bring the buffer to the maximum
StreamContinues ==
    /\ pc[ScenarioSocket] \in {"receive", "send"}
    /\ AtLeast(get_buffer_duration(buffer_sizes, ScenarioClient)
                 + (MaxStream - nrecv) * numel(Tone1s),
               BUFFER_MAX_SECONDS)

\* fragments leave the buffer of client c with this step
LeavesBuffer(c) ==
    /\ HoldsAudio(c)
    /\ \/ c \notin DOMAIN audio_buffers'
       \/ Len(audio_buffers'[c]) < Len(audio_buffers[c])

\* this step is a flush of a handler of client c
FlushStep(c) ==
    /\ latest'.socket # NoSocket
    /\ latest'.call.outcome = "flushed"
    /\ client_of[latest'.socket] = c

\* C32 (as claimed): while the client keeps sending valid fragments and the
\* collaborators return, audio that is buffered does not stay buffered for
\* ever, and it leaves the buffer by a flush only.
CexC32_BufferedIsFlushed ==
    /\ (HoldsAudio(ScenarioClient) /\ StreamContinues)
          ~> ~HoldsAudio(ScenarioClient)
    /\ [][LeavesBuffer(ScenarioClient) => FlushStep(ScenarioClient)]_vars

=============================================================================
